---- MODULE Spec2Model ----
(***************************************************************************)
(* Lead delivery pipeline: the delivery engine (pushLeadsForUser), the     *)
(* destination client it calls (contact / property search, create,         *)
(* association), the rate limiter's retry of 429 answers, and the          *)
(* queue-backed worker handler that wraps one engine run, together with    *)
(* the queue's redelivery of a rejected job.                               *)
(*                                                                         *)
(* The destination CRM is an environment: every request is answered with   *)
(* any HTTP status of Statuses (0 stands for a network error that carries  *)
(* no response) and, for a 2xx answer, with or without a record id in the  *)
(* body.  An external id is modelled by the index of the destination       *)
(* account that issued it; 0 is null / undefined.                          *)
(***************************************************************************)
EXTENDS Integers, Sequences, FiniteSets, TLC

\* ---------------------------------------------------------------- bounds
MaxAccounts == 2
MaxContacts == 1
MaxProps == 2
MaxRetry == 1
WORKER_COUNT == 2
MaxPoolJobs == 3
MaxTriggers == 2
MaxRunners == 2
MaxPollJobs == 2
MaxTicks == 3
TakeLimit == 5
MaxRelProps == 2
MaxAssocCalls == 3
MaxLimiterRuns == 3
MaxLimiterCalls == 2
MaxUsers == 3
MaxBatchIndex == 1
MaxBatchSize == 2
MaxCounted == 4
PROPERTIES_PER_BATCH == 2
MaxRuns == 2
MaxSent == 2
MaxLiveRequests == 6
MaxLiveTries == 3
MaxTurns == 3

\* ------------------------------------------------------ program constants
\* boss.send(..., { retryLimit: 3 })
RetryLimit == 3
\* maxAttempts of the tracked Job
MaxAttempts == 3
RetryDelay == 60000

AccountIds == 1..MaxAccounts
ContactIds == 1..MaxContacts
PropIds == 1..MaxProps
ExtIds == 0..MaxAccounts

\* HTTP answers of the destination; 0 is a network error without response
Statuses == {0, 200, 201, 204, 400, 401, 403, 404, 422, 429, 500}
Responses == {r \in [status : Statuses, hasId : BOOLEAN] :
                r.hasId => r.status \in {200, 201, 204}}

VARIABLES
  contact,        \* Contact table: id -> row
  property,       \* Property table: id -> row
  hasSettings,    \* the job's user exists and has settings
  job,            \* Job tracking row of the job being delivered
  nAccounts,      \* length of GHL_ACCOUNTS
  pc,             \* position of the worker handler / engine
  acct,           \* index of the account being iterated
  ci,             \* position in contactsToPush
  pi,             \* position in properties
  properties,     \* selected properties (ids, in query order)
  contactsToPush, \* keys of the contactsToPush map, in insertion order
  snap,           \* ghlContactId of the contactsToPush entries as loaded
  contactIdMap,   \* contactIdMap of the current account iteration
  curContact,     \* ghlContactId local of the property loop body
  curProp,        \* existingGhlId / ghlPropertyId local of the loop body
  retries,        \* limiter retries of the create request in flight
  createCalls,    \* ghost: contact-create calls scheduled, per contact, in this account iteration
  propPhase,      \* ghost: a property-create / association request was issued in this account iteration
  ownerSeen,      \* ghost: contacts whose external id the primary account gave in this run
  lastAuth,       \* ghost: the last destination answer was 401 / 403
  reqAny,         \* ghost: a destination request was issued in this run
  cause,          \* ghost: why the engine threw
  sel,            \* ghost: outcome of SelectProperties in this run
  dbFaults,       \* environment: writes of the Job row may be rejected
  qstate,         \* state of the job in the queue (pg-boss)
  retryCount,     \* retry count of the job in the queue (pg-boss)
  invocations,    \* ghost: handler invocations for the job
  engineOut,      \* ghost: how pushLeadsForUser ended in this invocation
  report,         \* ghost: what the handler reported to the queue
  jobWriteFailed, \* ghost: the last write of the Job row was rejected
  started,        \* MasterProcess: workers created and started so far
  isRunning,      \* WorkerManager.isRunning, per worker
  activeJobs,     \* WorkerManager.activeJobs, per worker
  inHandler,      \* handler invocations in flight, per worker
  settled,        \* of these, the ones past their last Job-row write
  fetched,        \* jobs handed to handlers so far
  isShuttingDown, \* MasterProcess.isShuttingDown
  shutPc,         \* position of the shutdown sequence
  stopState,      \* position of WorkerManager.stop, per worker
  timedOut,       \* the wait of stop() ended by its 30 s limit, per worker
  atBegin,        \* ghost: the job in flight when shutdown began, per worker
  shutdownStarts, \* ghost: times the shutdown sequence was started
  closeCalls,     \* ghost: calls of closeQueue
  triggers,       \* ghost: signals and uncaught errors seen
  firstSignal,    \* the signal that started the shutdown
  pjob,           \* polling variant: the Job rows (status, attempts)
  rpc,            \* position of each runWorker instance
  rjobs,          \* the rows its findMany returned, per instance
  ridx,           \* its position in them, per instance
  ticks,          \* runWorker calls made, per instance
  pexec,          \* ghost: engine executions of each row
  claimed,        \* ghost: successful claims per row and attempts value
  plan,           \* engine outcomes fixed in advance (<<>>: any outcome)
  apc,            \* position of ensureContactPropertyAssociation
  aArgs,          \* its arguments: external ids of contact and property
  aAssoc,         \* the association id it found (0: undefined)
  aCalls,         \* calls made so far
  aOutcome,       \* how the last call ended: returned or threw
  relations,      \* the relations the destination holds
  relAnswer,      \* the destination's answer to the last relation request
  relRes,         \* result of the last createRelationBetweenRecords
  okCount,        \* ghost: results with success = true, per property
  search,         \* the last call of a search helper: inputs and result
  lim,            \* the rateLimitedRequest calls: position, answers, result
  pay,            \* one contact payload: source values, object, sent body
  ing,            \* one webhook request: users, callbacks, queue, Job rows
  bat,            \* one batch job: its payload and the slice it fetched
  cov,            \* the batch jobs of one user and run: slices read, rows pushed
  norm,           \* one normalizer call: the function, its input, its result
  con,            \* runs on different workers over one contact and one property
  ded,            \* one entity in one run: in the account or not, search, create
  clm,            \* producer and workers on the same jobs: rows, positions
  live,           \* one job followed to its end: requests left, limiter, row
  tally           \* property loop of one account: associationCount and what it reports

storeVars == <<contact, property, hasSettings, nAccounts>>
selVars == <<properties, contactsToPush, snap>>
posVars == <<pc, acct, ci, pi>>
locVars == <<acct, ci, pi, properties, contactsToPush, snap, contactIdMap,
             curContact, curProp, retries>>
ghostVars == <<createCalls, propPhase, ownerSeen, lastAuth, reqAny, cause,
               sel>>
queueVars == <<qstate, retryCount, invocations>>
handlerGhosts == <<engineOut, report, jobWriteFailed>>
workerVars == <<dbFaults, qstate, retryCount, invocations, engineOut, report,
                jobWriteFailed>>
poolVars == <<started, isRunning, activeJobs, inHandler, settled, fetched,
              isShuttingDown, shutPc, stopState, timedOut, atBegin,
              shutdownStarts, closeCalls, triggers, firstSignal>>
\* the variables of the parts that one delivery does not touch
pollVars == <<pjob, rpc, rjobs, ridx, ticks, pexec, claimed, plan>>
assocVars == <<apc, aArgs, aAssoc, aCalls, aOutcome, relations, relAnswer,
               relRes, okCount>>
\* the variables of the helpers that are checked on their own
searchVars == <<search>>
limiterVars == <<lim>>
payloadVars == <<pay>>
ingestVars == <<ing>>
batchVars == <<bat>>
coverVars == <<cov>>
normVars == <<norm>>
concurrentVars == <<con>>
dedupVars == <<ded>>
claimVars == <<clm>>
liveVars == <<live>>
tallyVars == <<tally>>
extraVars == <<assocVars, searchVars, limiterVars, payloadVars, ingestVars,
               batchVars,
               coverVars,
               normVars,
               concurrentVars,
               dedupVars,
               claimVars,
               liveVars,
               tallyVars>>
sideVars == <<poolVars, pollVars, extraVars>>
\* the variables of one delivery: engine, handler and queue
deliveryVars == <<contact, property, hasSettings, job, nAccounts, pc, acct,
                  ci, pi, properties, contactsToPush, snap, contactIdMap,
                  curContact, curProp, retries, createCalls, propPhase,
                  ownerSeen, lastAuth, reqAny, cause, sel, dbFaults, qstate,
                  retryCount, invocations, engineOut, report, jobWriteFailed>>
vars == <<deliveryVars, sideVars>>

\* ------------------------------------------------------------ pure helpers
IsAuth(s) == s \in {401, 403}
Is2xx(s) == s \in {200, 201, 204}

\* extractGhlId / contact?.id probing of a response body
extractGhlId(r, a) == IF r.hasId THEN a ELSE 0

\* variant: an authorization failure of a search is a soft failure
SearchOneSoft(r, a) ==
  [id |-> IF Is2xx(r.status) THEN extractGhlId(r, a) ELSE 0,
   thrown |-> FALSE]

\* one duplicate-search request of findGhlContactByEmailOrPhone: the id of
\* the contact in a 2xx body, a throw on 401 / 403, not found otherwise
SearchOne(r, a) ==
  IF Is2xx(r.status)
    THEN [id |-> extractGhlId(r, a), thrown |-> FALSE]
    ELSE [id |-> 0, thrown |-> IsAuth(r.status)]

\* findGhlContactByEmailOrPhone as a whole: r1 answers its first request,
\* r2 the phone search that follows an email search without result
findGhlContactByEmailOrPhone(email, phone, r1, r2, a) ==
  IF ~email /\ ~phone
    THEN [id |-> 0, thrown |-> FALSE, reqs |-> 0]
  ELSE LET first == SearchOne(r1, a)
           second == SearchOne(r2, a)
       IN IF email /\ phone /\ ~first.thrown /\ first.id = 0
            THEN [id |-> second.id, thrown |-> second.thrown, reqs |-> 2]
            ELSE [id |-> first.id, thrown |-> first.thrown, reqs |-> 1]

\* findGhlPropertyByAddress
findGhlPropertyByAddress(r, a) ==
  IF Is2xx(r.status)
    THEN [id |-> extractGhlId(r, a), thrown |-> FALSE]
    ELSE [id |-> 0, thrown |-> IsAuth(r.status)]

\* the Property table in query order
AllProps == [i \in PropIds |-> i]

InSeq(x, s) == \E i \in 1..Len(s) : s[i] = x

\* variant: every contact that is not pushed is taken, whoever owns the
\* selected properties
AddEveryContact(keys, o) ==
  SelectSeq([c \in ContactIds |-> c], LAMBDA c : ~contact[c].pushed)

\* variant: every property adds its owner again
AddOwnerAgain(keys, o) ==
  IF o # 0 /\ ~contact[o].pushed THEN Append(keys, o) ELSE keys

\* "if (p.owner && !p.owner.pushed && p.ownerId) contactsToPush.set(...)":
\* Map.set on a key already present keeps the single entry
AddOwner(keys, o) ==
  IF o # 0 /\ ~contact[o].pushed /\ ~InSeq(o, keys)
    THEN Append(keys, o) ELSE keys

\* keys of the contactsToPush map after the loop over the first n selected
\* properties
RECURSIVE OwnersToPush(_, _)
OwnersToPush(ps, n) ==
  IF n = 0 THEN <<>>
  ELSE AddOwner(OwnersToPush(ps, n - 1), property[ps[n]].ownerId)

\* variant: the query without the ZIP and price filters
SelectPropertiesUnfiltered ==
  SelectSeq(AllProps, LAMBDA p : ~property[p].pushed)

\* the query of SelectProperties: matching the filters and not pushed
SelectProperties ==
  SelectSeq(AllProps, LAMBDA p : property[p].match /\ ~property[p].pushed)

NoMap == [c \in ContactIds |-> 0]
NoCount == [c \in ContactIds |-> 0]

\* ------------------------------------------------------------------ Init
FreshContact == [pushed : {FALSE}, ghlContactId : {0},
                 email : BOOLEAN, phone : BOOLEAN]
FreshProperty == [pushed : {FALSE}, ghlPropertyId : {0},
                  ownerId : 0..MaxContacts, match : BOOLEAN]
PendingJob == [status |-> "pending", attempts |-> 0, lastError |-> "none"]
NoReport == [kind |-> "none", err |-> "none"]

\* Contacts and properties are interchangeable up to renaming, so the
\* initial store is drawn up to that renaming: the properties inside the
\* user's filters come first, contacts are numbered in the order in which
\* the properties first refer to them, a property outside the filters
\* (never loaded by any run) carries no owner, and a contact that no
\* property refers to has both email and phone.
Canonical(cs, ps) ==
  /\ \A p \in PropIds :
        /\ ~ps[p].match => ps[p].ownerId = 0
        /\ ps[p].match /\ p > 1 => ps[p - 1].match
        /\ \A c \in ContactIds :
              ps[p].ownerId = c /\ c > 1 =>
                \E q \in 1..(p - 1) : ps[q].ownerId = c - 1
  /\ \A c \in ContactIds :
        (\A p \in PropIds : ps[p].ownerId # c) => cs[c].email /\ cs[c].phone

WorkerIds == 1..WORKER_COUNT
Signals == {"SIGTERM", "SIGINT", "SIGUSR2", "uncaughtException",
            "unhandledRejection"}
ZeroPerWorker == [w \in WorkerIds |-> 0]

\* the pool before MasterProcess.start
PoolOff ==
  /\ started = 0
  /\ isRunning = [w \in WorkerIds |-> FALSE]
  /\ activeJobs = ZeroPerWorker
  /\ inHandler = ZeroPerWorker
  /\ settled = ZeroPerWorker
  /\ fetched = 0
  /\ isShuttingDown = FALSE
  /\ shutPc = "run"
  /\ stopState = [w \in WorkerIds |-> "idle"]
  /\ timedOut = [w \in WorkerIds |-> FALSE]
  /\ atBegin = [w \in WorkerIds |-> "none"]
  /\ shutdownStarts = 0 /\ closeCalls = 0 /\ triggers = 0
  /\ firstSignal = "none"

\* the parts that one delivery does not touch, at rest
RunnerIds == 1..MaxRunners
PollJobIds == 1..MaxPollJobs

\* a Job row as the ingest endpoint creates it: pending, attempts 0
PendingRow == [status |-> "pending", attempts |-> 0]

\* the polling workers before their first tick, over the rows `rows`,
\* with the engine outcomes `pl`
PollInit(rows, pl) ==
  /\ pjob = rows
  /\ rpc = [i \in RunnerIds |-> "idle"]
  /\ rjobs = [i \in RunnerIds |-> <<>>]
  /\ ridx = [i \in RunnerIds |-> 1]
  /\ ticks = [i \in RunnerIds |-> 0]
  /\ pexec = [j \in PollJobIds |-> 0]
  /\ claimed = [j \in PollJobIds |-> [a \in 0..MaxAttempts |-> 0]]
  /\ plan = pl

PollOff == PollInit([j \in PollJobIds |-> PendingRow], <<>>)

\* ensureContactPropertyAssociation before its first call
AssocOff ==
  /\ apc = "idle"
  /\ aArgs = [contact |-> 0, property |-> 0]
  /\ aAssoc = 0
  /\ aCalls = 0
  /\ aOutcome = "none"
  /\ relations = {}
  /\ relAnswer = [status |-> 0,
                  data |-> [present |-> FALSE, message |-> <<>>,
                            error |-> <<>>]]
  /\ relRes = [kind |-> "none", alreadyExists |-> FALSE]
  /\ okCount = [p \in 1..MaxRelProps |-> 0]

\* no search helper was called yet
NoSearch ==
  [kind |-> "none", email |-> FALSE, phone |-> FALSE, address |-> FALSE,
   r1 |-> [status |-> 0, hasId |-> FALSE],
   r2 |-> [status |-> 0, hasId |-> FALSE],
   out |-> [id |-> 0, thrown |-> FALSE, reqs |-> 0]]

SearchOff == search = NoSearch

\* a rateLimitedRequest call that was not made yet
NoCall == [pc |-> "idle", answers |-> <<>>, result |-> "none", error |-> 0]

\* no request was scheduled yet
LimiterOff == lim = [q \in 1..MaxLimiterCalls |-> NoCall]

\* fields of the contact payload that stand for the ways a value is
\* filled in: top level "x ?? undefined"; custom field "x || \"\"",
\* "x ?? undefined", the pool normalizer, and normalizeLiquidAssets
TopFields == {"firstName", "email", "city"}
CustomFields == {"bedrooms", "tax_value", "pool", "liquid_assets"}
SourceFields == {"firstName", "email", "city", "bedrooms", "taxValue",
                 "pool", "liquidAssets"}

\* the source values of a field: null, or one of its texts
SourceValues(f) ==
  CASE f = "pool" -> {"null", "yes", "No", "TRUE", "maybe"}
    [] f = "liquidAssets" -> {"null", "yes", "no"}
    [] OTHER -> {"null", "text"}

NoObject == [top |-> [f \in TopFields |-> "absent"],
             custom |-> [f \in CustomFields |-> "absent"]]

\* no payload is being built
PayloadOff ==
  pay = [pc |-> "idle", src |-> [f \in SourceFields |-> "null"],
         obj |-> NoObject]

UserIds == 1..MaxUsers

\* no webhook request is being handled
IngestOff ==
  ing = [settings |-> [u \in UserIds |-> FALSE],
         cb |-> [u \in UserIds |-> "off"],
         jobId |-> [u \in UserIds |-> 0],
         queue |-> {}, rows |-> {}, resp |-> 0]

\* no batch job is queued
BatchOff ==
  bat = [pc |-> "off", batchIndex |-> 0, batchSize |-> 1, slice |-> <<>>]

\* the batch jobs a webhook can enqueue for one user
BatchIds == 0..((MaxCounted + PROPERTIES_PER_BATCH - 1) \div PROPERTIES_PER_BATCH - 1)
NoSlices == [b \in BatchIds |-> <<>>]

\* no batched webhook has been received
CoverOff ==
  cov = [count |-> 0, total |-> 0, pushed |-> {},
         bpc |-> [b \in BatchIds |-> "absent"],
         slice |-> NoSlices,
         sel |-> [b \in BatchIds |-> {}]]

\* no normalizer has been called
NormOff == norm = [fn |-> "none", input |-> "null", out |-> "null"]

RunIds == 1..MaxRuns

\* no concurrent runs
ConcurrentOff ==
  con = [rpc |-> [j \in RunIds |-> "off"],
         cmap |-> [j \in RunIds |-> FALSE],
         cPushed |-> FALSE, pPushed |-> FALSE,
         destContacts |-> 0, destProps |-> 0]

NoAnswer == [status |-> 0, hasId |-> FALSE]

\* no single-entity run
DedupOff ==
  ded = [kind |-> "none", exists |-> FALSE, email |-> FALSE, phone |-> FALSE,
         pc |-> "off", r1 |-> NoAnswer, r2 |-> NoAnswer, created |-> 0]

SentIds == 1..MaxSent
NoRow == [status |-> "none", attempts |-> 0]

\* no webhook and no claim
ClaimOff ==
  clm = [ppc |-> [j \in SentIds |-> "off"],
        wpc |-> [j \in SentIds |-> "off"],
        found |-> [j \in SentIds |-> FALSE],
        row |-> [j \in SentIds |-> NoRow],
        engine |-> [j \in SentIds |-> 0],
        resp |-> 0]

\* no job is being followed to its end
LiveOff ==
  live = [pc |-> "off", left |-> 0, tries |-> 0, last |-> 0,
          row |-> "pending"]

\* no account iteration is counting its associations
TallyOff ==
  tally = [pc |-> "off", turns |-> 0, prop |-> 0, associationCount |-> 0,
           confirmed |-> 0, rel |-> {}, reported |-> 0]

\* the helpers at rest, but for the one named x, whose specification
\* starts it itself
ExtraOff(x) ==
  /\ IF x = "assoc" THEN TRUE ELSE AssocOff
  /\ IF x = "search" THEN TRUE ELSE SearchOff
  /\ IF x = "limiter" THEN TRUE ELSE LimiterOff
  /\ IF x = "payload" THEN TRUE ELSE PayloadOff
  /\ IF x = "ingest" THEN TRUE ELSE IngestOff
  /\ IF x = "batch" THEN TRUE ELSE BatchOff
  /\ IF x = "cover" THEN TRUE ELSE CoverOff
  /\ IF x = "norm" THEN TRUE ELSE NormOff
  /\ IF x = "concurrent" THEN TRUE ELSE ConcurrentOff
  /\ IF x = "dedup" THEN TRUE ELSE DedupOff
  /\ IF x = "claim" THEN TRUE ELSE ClaimOff
  /\ IF x = "live" THEN TRUE ELSE LiveOff
  /\ IF x = "tally" THEN TRUE ELSE TallyOff

SideOff == PoolOff /\ PollOff /\ ExtraOff("none")

\* a job as boss.send leaves it, before any handler saw it
InitWorker ==
  /\ qstate = "created" /\ retryCount = 0 /\ invocations = 0
  /\ engineOut = "none" /\ report = NoReport
  /\ jobWriteFailed = FALSE

Init ==
  /\ contact \in [ContactIds -> FreshContact]
  /\ property \in [PropIds -> FreshProperty]
  /\ Canonical(contact, property)
  /\ hasSettings \in BOOLEAN
  /\ nAccounts \in AccountIds
  /\ dbFaults = FALSE
  /\ InitWorker
  /\ SideOff
  /\ job = PendingJob
  /\ pc = "idle"
  /\ acct = 1 /\ ci = 1 /\ pi = 1
  /\ properties = <<>> /\ contactsToPush = <<>>
  /\ snap = NoMap
  /\ contactIdMap = NoMap
  /\ curContact = 0 /\ curProp = 0 /\ retries = 0
  /\ createCalls = NoCount
  /\ propPhase = FALSE
  /\ ownerSeen = {}
  /\ lastAuth = FALSE /\ reqAny = FALSE
  /\ cause = "none" /\ sel = "none"

\* ------------------------------------------------- worker handler (start)
ResetLocals ==
  /\ acct' = 1 /\ ci' = 1 /\ pi' = 1
  /\ properties' = <<>> /\ contactsToPush' = <<>>
  /\ snap' = NoMap
  /\ contactIdMap' = NoMap
  /\ curContact' = 0 /\ curProp' = 0 /\ retries' = 0

ResetGhosts ==
  /\ createCalls' = NoCount
  /\ propPhase' = FALSE /\ ownerSeen' = {}
  /\ lastAuth' = FALSE /\ reqAny' = FALSE
  /\ cause' = "none" /\ sel' = "none"

\* outcomes of a write of the Job row: TRUE done, FALSE rejected
JobWrites == IF dbFaults THEN BOOLEAN ELSE {TRUE}

\* boss.work handler up to the call of pushLeadsForUser: the Job row is set
\* to in_progress and its attempts incremented; when that write is rejected
\* the catch block is entered and the engine is not called
HandlerBegin ==
  /\ pc = "idle"
  /\ qstate' = "active"
  /\ invocations' = invocations + 1
  /\ engineOut' = "none"
  /\ report' = NoReport
  /\ \E ok \in JobWrites :
       /\ jobWriteFailed' = ~ok
       /\ job' = IF ok THEN [job EXCEPT !.status = "in_progress",
                                        !.attempts = @ + 1]
                 ELSE job
       /\ pc' = IF ok THEN "load" ELSE "caught"
  /\ UNCHANGED <<storeVars, dbFaults, sideVars>>
  /\ ResetLocals
  /\ ResetGhosts

\* the queue hands a job to the handler for the first time
HandlerStart ==
  /\ qstate = "created"
  /\ job.status = "pending"
  /\ retryCount' = retryCount
  /\ HandlerBegin

\* the queue hands the job to the handler again after a rejection
HandlerRetry ==
  /\ qstate = "retry"
  /\ retryCount' = retryCount + 1
  /\ HandlerBegin

\* no unpushed property is inside the user's ZIP and price filters
NoneSelectable ==
  \A p \in PropIds : ~(property[p].match /\ ~property[p].pushed)

\* pushLeadsForUser: load user and settings, SelectProperties, contactsToPush
LoadAndSelect ==
  /\ pc = "load"
  /\ UNCHANGED <<storeVars, job, acct, ci, pi, contactIdMap, curContact,
                 curProp, retries, createCalls, propPhase, ownerSeen,
                 lastAuth, reqAny, workerVars, sideVars>>
  /\ IF ~hasSettings
       THEN /\ pc' = "thrown"
            /\ cause' = "settings"
            /\ sel' = "nosettings"
            /\ UNCHANGED selVars
     ELSE LET ps == SelectProperties
              cs == OwnersToPush(ps, Len(ps))
          IN /\ properties' = ps
             /\ contactsToPush' = cs
             /\ snap' = [c \in ContactIds |->
                           IF InSeq(c, cs) THEN contact[c].ghlContactId ELSE 0]
             /\ cause' = cause
             /\ sel' = IF NoneSelectable THEN "empty" ELSE "some"
             /\ pc' = IF Len(ps) = 0 THEN "returned"
                      ELSE IF Len(cs) > 0 THEN "contact" ELSE "property"

\* variant: a contact is sent whether or not it has an email or a phone
ContactableAlways(c) == TRUE

\* "if (!contact.email && !contact.phone) continue" in the contact loop,
\* "if (!email && !phone) return undefined" in the search: a contact is
\* sent to the destination only with an email or a phone
Contactable(c) == contact[c].email \/ contact[c].phone

\* ------------------------------------------------------- loop positions
\* where the contact loop goes after its i-th entry
AfterContact(i) ==
  IF i < Len(contactsToPush)
    THEN [pc |-> "contact", ci |-> i + 1]
    ELSE [pc |-> "property", ci |-> 1]

\* variant: the contact loop is entered again after every property
AfterPropertyInterleaved(j) ==
  IF j < Len(properties)
    THEN [pc |-> IF Len(contactsToPush) > 0 THEN "contact" ELSE "property",
          pi |-> j + 1, acct |-> acct]
  ELSE IF acct < nAccounts
    THEN [pc |-> IF Len(contactsToPush) > 0 THEN "contact" ELSE "property",
          pi |-> 1, acct |-> acct + 1]
  ELSE [pc |-> "returned", pi |-> 1, acct |-> acct]

\* where the property loop goes after its j-th entry: the next property,
\* the next account of GHL_ACCOUNTS, or the end of the run
AfterProperty(j) ==
  IF j < Len(properties)
    THEN [pc |-> "property", pi |-> j + 1, acct |-> acct]
  ELSE IF acct < nAccounts
    THEN [pc |-> IF Len(contactsToPush) > 0 THEN "contact" ELSE "property",
          pi |-> 1, acct |-> acct + 1]
  ELSE [pc |-> "returned", pi |-> 1, acct |-> acct]

MoveContact(i) ==
  /\ pc' = AfterContact(i).pc
  /\ ci' = AfterContact(i).ci

\* variant: contactIdMap is declared before the loop over the accounts and
\* lives through the whole run
MovePropertySharedMap(j, phase) ==
  LET n == AfterProperty(j)
  IN /\ pc' = n.pc
     /\ pi' = n.pi
     /\ acct' = n.acct
     /\ curContact' = 0
     /\ curProp' = 0
     /\ contactIdMap' = contactIdMap
     /\ IF n.acct # acct
          THEN /\ createCalls' = NoCount
               /\ propPhase' = FALSE
               /\ ownerSeen' = {}
        ELSE /\ UNCHANGED <<createCalls, ownerSeen>>
             /\ propPhase' = phase

\* leave the body of the property loop; a new account iteration starts with
\* an empty contactIdMap
MoveProperty(j, phase) ==
  LET n == AfterProperty(j)
  IN /\ pc' = n.pc
     /\ pi' = n.pi
     /\ acct' = n.acct
     /\ curContact' = 0
     /\ curProp' = 0
     /\ IF n.acct # acct
          THEN /\ contactIdMap' = NoMap
               /\ createCalls' = NoCount
               /\ propPhase' = FALSE
               /\ ownerSeen' = {}
        ELSE /\ UNCHANGED <<contactIdMap, createCalls, ownerSeen>>
             /\ propPhase' = phase

Throw(c) ==
  /\ pc' = "thrown"
  /\ cause' = c

\* what every step of the engine leaves alone
EngineFrame ==
  UNCHANGED <<hasSettings, nAccounts, job, selVars, sel, workerVars,
              sideVars>>

\* ---------------------------------------------------- PushContacts (step 3)
\* the code after a search of the contact loop found the contact: remember
\* the id for this account, backfill the local row if it had no external id
ContactFound(c, id, ok) ==
  /\ contactIdMap' = [contactIdMap EXCEPT ![c] = id]
  /\ ownerSeen' = IF acct = 1 THEN ownerSeen \cup {c} ELSE ownerSeen
  /\ IF snap[c] = 0
       THEN IF ok
              THEN /\ contact' = [contact EXCEPT ![c].ghlContactId = id]
                   /\ MoveContact(ci)
                   /\ cause' = cause
            ELSE /\ Throw("write")
                 /\ UNCHANGED <<contact, ci>>
     ELSE /\ MoveContact(ci)
          /\ UNCHANGED <<contact, cause>>

\* the answer r to one search request of the contact loop; more: the phone
\* search is still to come when this one finds nothing
ContactAnswer(c, r, more, ok) ==
  LET f == SearchOne(r, acct)
  IN /\ reqAny' = TRUE
     /\ lastAuth' = IsAuth(r.status)
     /\ IF f.thrown
          THEN /\ Throw("auth")
               /\ UNCHANGED <<contact, contactIdMap, ownerSeen, ci>>
        ELSE IF f.id # 0
          THEN ContactFound(c, f.id, ok)
        ELSE /\ pc' = IF more THEN "contactPhone" ELSE "contactCreate"
             /\ UNCHANGED <<contact, contactIdMap, ownerSeen, ci, cause>>

\* One entry of the contact loop: skip a contact without email and phone,
\* else the first request of findGhlContactByEmailOrPhone
ContactSearch ==
  /\ pc = "contact"
  /\ LET c == contactsToPush[ci]
     IN IF ~Contactable(c)
          THEN /\ MoveContact(ci)
               /\ UNCHANGED <<contact, contactIdMap, ownerSeen, lastAuth,
                              reqAny, cause>>
        ELSE \E r \in Responses, ok \in BOOLEAN :
               ContactAnswer(c, r, contact[c].email /\ contact[c].phone, ok)
  /\ UNCHANGED <<property, acct, pi, curContact, curProp, retries,
                 createCalls, propPhase>>
  /\ EngineFrame

\* the phone search that follows an email search without result
ContactSearchPhone ==
  /\ pc = "contactPhone"
  /\ \E r \in Responses, ok \in BOOLEAN :
       ContactAnswer(contactsToPush[ci], r, FALSE, ok)
  /\ UNCHANGED <<property, acct, pi, curContact, curProp, retries,
                 createCalls, propPhase>>
  /\ EngineFrame

\* The create request of a contact that was not found, and the local update
\* after a 200 / 201 answer.  A 429 answer makes the limiter run the request
\* again (rateLimiter.ts "failed" handler).
ContactCreate ==
  /\ pc = "contactCreate"
  /\ LET c == contactsToPush[ci]
     IN \E r \in Responses, ok \in BOOLEAN :
          LET id == extractGhlId(r, acct)
              created == r.status \in {200, 201}
              saved == created /\ (acct = 1 => ok)
          IN /\ reqAny' = TRUE
             /\ lastAuth' = IsAuth(r.status)
             /\ createCalls' = [createCalls EXCEPT
                                  ![c] = IF retries = 0 THEN @ + 1 ELSE @]
             /\ IF r.status = 429
                  THEN /\ retries < MaxRetry
                       /\ retries' = retries + 1
                       /\ UNCHANGED <<contact, contactIdMap, ownerSeen, pc, ci>>
                ELSE
                  /\ retries' = 0
                  /\ MoveContact(ci)
                  /\ contact' = IF created /\ acct = 1 /\ ok
                                  THEN [contact EXCEPT
                                          ![c].pushed = TRUE,
                                          ![c].ghlContactId =
                                             IF id = 0 THEN @ ELSE id]
                                  ELSE contact
                  /\ contactIdMap' = IF saved
                                       THEN [contactIdMap EXCEPT ![c] = id]
                                       ELSE contactIdMap
                  /\ ownerSeen' = IF saved /\ acct = 1 /\ id # 0
                                    THEN ownerSeen \cup {c} ELSE ownerSeen
  /\ UNCHANGED <<property, acct, pi, curContact, curProp, propPhase, cause>>
  /\ EngineFrame

\* ------------------------------------------ PushProperties & Associate (4)
\* variant: the property is created whether or not its owner is known
OwnerResolvedAlways(cid) == TRUE

\* "if (!ghlContactId) continue": a property is created only when its
\* owner's destination id is known
OwnerResolved(cid) == cid # 0

\* the loop body once the owner's id cid was looked up (0: none): associate
\* an existing property pid, create a missing one, or skip the property
Dispatch(cid, pid) ==
  IF (pid # 0 /\ cid # 0) \/ (pid = 0 /\ OwnerResolved(cid))
    THEN /\ pc' = IF pid # 0 THEN "associate" ELSE "propertyCreate"
         /\ curContact' = cid
         /\ curProp' = pid
         /\ UNCHANGED <<acct, pi, contactIdMap, createCalls, propPhase,
                        ownerSeen>>
    ELSE MoveProperty(pi, propPhase)

\* One entry of the property loop: search the destination by address, then
\* take the owner's id from contactIdMap or start the fallback search
PropertySearch ==
  /\ pc = "property"
  /\ LET p == properties[pi]
         o == property[p].ownerId
     IN \E r \in Responses :
          LET fp == findGhlPropertyByAddress(r, acct)
              mapped == IF o = 0 THEN 0 ELSE contactIdMap[o]
          IN /\ reqAny' = TRUE
             /\ lastAuth' = IsAuth(r.status)
             /\ IF fp.thrown
                  THEN /\ Throw("auth")
                       /\ UNCHANGED <<acct, pi, contactIdMap, curContact,
                                      curProp, createCalls, propPhase,
                                      ownerSeen>>
                ELSE IF mapped = 0 /\ o # 0 /\ Contactable(o)
                  THEN /\ pc' = "owner"
                       /\ curProp' = fp.id
                       /\ UNCHANGED <<acct, pi, contactIdMap, curContact,
                                      createCalls, propPhase, ownerSeen, cause>>
                ELSE /\ IF o = 0 THEN MoveProperty(pi, propPhase)
                        ELSE Dispatch(mapped, fp.id)
                     /\ cause' = cause
  /\ UNCHANGED <<contact, property, ci, retries>>
  /\ EngineFrame

\* the answer r to one request of the fallback owner search
OwnerAnswer(o, r, more) ==
  LET f == SearchOne(r, acct)
  IN /\ reqAny' = TRUE
     /\ lastAuth' = IsAuth(r.status)
     /\ IF f.thrown
          THEN /\ Throw("auth")
               /\ UNCHANGED <<acct, pi, contactIdMap, curContact, curProp,
                              createCalls, propPhase, ownerSeen>>
        ELSE IF f.id # 0
          THEN /\ pc' = IF curProp # 0 THEN "associate" ELSE "propertyCreate"
               /\ curContact' = f.id
               /\ ownerSeen' = IF acct = 1 THEN ownerSeen \cup {o}
                               ELSE ownerSeen
               /\ UNCHANGED <<acct, pi, contactIdMap, curProp, createCalls,
                              propPhase, cause>>
        ELSE IF more
          THEN /\ pc' = "ownerPhone"
               /\ UNCHANGED <<acct, pi, contactIdMap, curContact, curProp,
                              createCalls, propPhase, ownerSeen, cause>>
        ELSE /\ Dispatch(0, curProp)
             /\ cause' = cause

\* fallback: the owner is read from the store and searched in the account
OwnerSearch ==
  /\ pc = "owner"
  /\ LET o == property[properties[pi]].ownerId
     IN \E r \in Responses :
          OwnerAnswer(o, r, contact[o].email /\ contact[o].phone)
  /\ UNCHANGED <<contact, property, ci, retries>>
  /\ EngineFrame

OwnerSearchPhone ==
  /\ pc = "ownerPhone"
  /\ \E r \in Responses :
       OwnerAnswer(property[properties[pi]].ownerId, r, FALSE)
  /\ UNCHANGED <<contact, property, ci, retries>>
  /\ EngineFrame

\* variant: the row is updated after every 201 answer
PersistPropertyNoId(r, a) == r.status = 201

\* "if (resp.status === 201) { ... if (ghlPropertyId)": the answers after
\* which the Property row is updated
PersistProperty(r, a) == r.status = 201 /\ extractGhlId(r, a) # 0

\* "pushed: account === GHL_ACCOUNTS[0]"
PushedFlag(a) == a = 1

\* The create request of a property that was not found, and the local
\* update after a 201 answer with an id.  A 429 answer makes the limiter
\* run the request again.
PropertyCreate ==
  /\ pc = "propertyCreate"
  /\ LET p == properties[pi]
     IN \E r \in Responses, ok \in BOOLEAN :
          LET id == extractGhlId(r, acct)
              write == PersistProperty(r, acct)
          IN /\ reqAny' = TRUE
             /\ lastAuth' = IsAuth(r.status)
             /\ IF r.status = 429
                  THEN /\ retries < MaxRetry
                       /\ retries' = retries + 1
                       /\ propPhase' = TRUE
                       /\ UNCHANGED <<property, pc, acct, pi, contactIdMap,
                                      curContact, curProp, createCalls,
                                      ownerSeen>>
                ELSE
                  /\ retries' = 0
                  /\ property' = IF write /\ ok
                                   THEN [property EXCEPT
                                           ![p].pushed = PushedFlag(acct),
                                           ![p].ghlPropertyId = id]
                                   ELSE property
                  /\ IF r.status \in {200, 201} /\ (write => ok) /\ id # 0
                          /\ curContact # 0
                       THEN /\ pc' = "associate"
                            /\ curProp' = id
                            /\ propPhase' = TRUE
                            /\ UNCHANGED <<acct, pi, contactIdMap, curContact,
                                           createCalls, ownerSeen>>
                     ELSE MoveProperty(pi, TRUE)
  /\ UNCHANGED <<contact, ci, cause>>
  /\ EngineFrame

\* ensureContactPropertyAssociation(curContact, curProp), first request:
\* the association definitions are listed; without a matching definition
\* the function returns
AssocLookup ==
  /\ pc = "associate"
  /\ \E rDef \in Responses :
       /\ reqAny' = TRUE
       /\ lastAuth' = IsAuth(rDef.status)
       /\ IF Is2xx(rDef.status) /\ rDef.hasId
            THEN /\ pc' = "relate"
                 /\ propPhase' = TRUE
                 /\ UNCHANGED <<acct, pi, contactIdMap, curContact, curProp,
                                createCalls, ownerSeen>>
          ELSE MoveProperty(pi, TRUE)
  /\ UNCHANGED <<contact, property, ci, retries, cause>>
  /\ EngineFrame

\* ensureContactPropertyAssociation, rest: the contact is fetched from the
\* destination when no local name is known, then the relation is created;
\* every failure is logged and swallowed
AssocRelate ==
  /\ pc = "relate"
  /\ \E named \in BOOLEAN :
     \E rGet \in IF named THEN {[status |-> 200, hasId |-> TRUE]}
                 ELSE Responses :
     \E rRel \in Responses :
       /\ reqAny' = TRUE
       /\ lastAuth' = IsAuth(rRel.status)
       /\ MoveProperty(pi, TRUE)
  /\ UNCHANGED <<contact, property, ci, retries, cause>>
  /\ EngineFrame

\* --------------------------------------------------- worker handler (end)
\* what the queue does with a job whose handler rejected (pg-boss): a
\* retry while the retry count is below the job's retryLimit
QueueAfterReject(rc) == IF rc < RetryLimit THEN "retry" ELSE "failed"

\* pushLeadsForUser returned: the Job row is set to completed and the
\* handler resolves; when that write is rejected the catch block is entered
HandlerComplete ==
  /\ pc = "returned"
  /\ engineOut' = "returned"
  /\ \E ok \in JobWrites :
       /\ jobWriteFailed' = ~ok
       /\ job' = IF ok THEN [job EXCEPT !.status = "completed"] ELSE job
       /\ pc' = IF ok THEN "idle" ELSE "caught"
       /\ report' = IF ok THEN [kind |-> "resolved", err |-> "none"]
                    ELSE report
       /\ qstate' = IF ok THEN "completed" ELSE qstate
       /\ IF ok THEN ResetLocals ELSE UNCHANGED locVars
  /\ UNCHANGED <<storeVars, ghostVars, dbFaults, retryCount, invocations,
                 sideVars>>

\* the error the catch block of the handler holds
CaughtError == IF pc = "thrown" THEN cause ELSE "jobwrite"

\* variant: the catch block records the error and does not throw it again
CatchReportSwallow(e) == [kind |-> "resolved", err |-> "none"]

\* "throw error": the catch block ends by rejecting with the error it caught
CatchReport(e) == [kind |-> "rejected", err |-> e]

\* variant: the failed row does not take the error message
CatchRowNoMessage(j, e) == [j EXCEPT !.status = "failed"]

\* "update: { status: 'failed', lastError: errorMessage }"
CatchRow(j, e) == [j EXCEPT !.status = "failed", !.lastError = e]

\* the catch block: the Job row is set to failed with the error message (a
\* rejected write is logged and dropped), and the error is thrown again to
\* the queue
HandlerFail ==
  /\ pc \in {"thrown", "caught"}
  /\ engineOut' = IF pc = "thrown" THEN "thrown" ELSE engineOut
  /\ \E ok \in JobWrites :
       /\ jobWriteFailed' = ~ok
       /\ job' = IF ok THEN CatchRow(job, CaughtError) ELSE job
  /\ report' = CatchReport(CaughtError)
  /\ qstate' = IF report'.kind = "rejected" THEN QueueAfterReject(retryCount)
                ELSE "completed"
  /\ pc' = "idle"
  /\ ResetLocals
  /\ UNCHANGED <<storeVars, ghostVars, dbFaults, retryCount, invocations,
                 sideVars>>

\* The producer enqueues the next job of the user and creates its Job row.
\* The engine is handed a synthetic Job object and never reads the Job row,
\* so a run that the queue starts as a retry of a failed job is, for the
\* Contact and Property tables and for the destination, a run like this one.
NewJob ==
  /\ pc = "idle"
  /\ job.status \in {"completed", "failed"}
  /\ job' = PendingJob
  /\ qstate' = "created" /\ retryCount' = 0 /\ invocations' = 0
  /\ engineOut' = "none" /\ report' = NoReport
  /\ jobWriteFailed' = FALSE
  /\ ResetGhosts
  /\ UNCHANGED <<storeVars, pc, locVars, dbFaults, sideVars>>

Next ==
  \/ HandlerStart
  \/ LoadAndSelect
  \/ ContactSearch
  \/ ContactSearchPhone
  \/ ContactCreate
  \/ PropertySearch
  \/ OwnerSearch
  \/ OwnerSearchPhone
  \/ PropertyCreate
  \/ AssocLookup
  \/ AssocRelate
  \/ HandlerComplete
  \/ HandlerFail
  \/ NewJob

Spec == Init /\ [][Next]_vars

\* ------------------------------------------- the job's life in the queue
\* "await pushLeadsForUser(jobData)" seen from the handler: the engine
\* returns or throws one of its errors
EngineOutcomes(k) == IF k \in DOMAIN plan THEN {plan[k]} ELSE BOOLEAN

EngineRun ==
  /\ pc = "load"
  /\ \E ok \in EngineOutcomes(invocations) :
       IF ok THEN pc' = "returned" /\ cause' = cause
       ELSE pc' = "thrown" /\ cause' \in {"settings", "auth", "write"}
  /\ UNCHANGED <<storeVars, job, locVars, createCalls, propPhase, ownerSeen,
                 lastAuth, reqAny, sel, workerVars, sideVars>>

\* the store and the engine before a run; the engine is seen through
\* EngineRun, which does not read them
EngineAtRest ==
  /\ contact = [c \in ContactIds |->
                  [pushed |-> FALSE, ghlContactId |-> 0,
                   email |-> TRUE, phone |-> TRUE]]
  /\ property = [p \in PropIds |->
                   [pushed |-> FALSE, ghlPropertyId |-> 0,
                    ownerId |-> 0, match |-> FALSE]]
  /\ hasSettings = TRUE
  /\ nAccounts = 1
  /\ InitWorker
  /\ job = PendingJob
  /\ pc = "idle"
  /\ acct = 1 /\ ci = 1 /\ pi = 1
  /\ properties = <<>> /\ contactsToPush = <<>>
  /\ snap = NoMap
  /\ contactIdMap = NoMap
  /\ curContact = 0 /\ curProp = 0 /\ retries = 0
  /\ createCalls = NoCount
  /\ propPhase = FALSE
  /\ ownerSeen = {}
  /\ lastAuth = FALSE /\ reqAny = FALSE
  /\ cause = "none" /\ sel = "none"

\* one job, from boss.send to its last handler invocation; writes of the
\* Job row may be rejected
InitQueue ==
  /\ EngineAtRest
  /\ dbFaults = TRUE
  /\ SideOff

NextQueue ==
  \/ HandlerStart
  \/ HandlerRetry
  \/ EngineRun
  \/ HandlerComplete
  \/ HandlerFail

SpecQueue == InitQueue /\ [][NextQueue]_vars

\* ------------------------------------------- worker pool and shutdown
\* MasterProcess.start: the workers are created and started one by one;
\* WorkerManager.start sets isRunning and subscribes its handler
WorkerStart ==
  /\ started < WORKER_COUNT
  /\ shutPc = "run"
  /\ started' = started + 1
  /\ isRunning' = [isRunning EXCEPT ![started + 1] = TRUE]
  /\ UNCHANGED <<deliveryVars, pollVars, extraVars>>
  /\ UNCHANGED <<activeJobs, inHandler, settled, fetched, isShuttingDown,
                 shutPc, stopState, timedOut, atBegin, shutdownStarts,
                 closeCalls, triggers, firstSignal>>

\* variant: the subscription fetches while its handler is still running
SubscriptionFreeAlways(w) == TRUE

\* boss.work without batch options: the subscription of a worker fetches
\* its next job only after its handler promise has settled
SubscriptionFree(w) == inHandler[w] = 0

\* The queue delivers jobs until closeQueue is called.  stop() does not
\* unsubscribe, so jobs are delivered while some stop() is in its wait
\* loop; when the last stop() returns, closeQueue follows in the same
\* turn of the event loop.
QueueDelivers ==
  \/ shutPc = "run"
  \/ shutPc = "stopping" /\ \E v \in WorkerIds : stopState[v] = "waiting"

\* the subscription of worker w hands a job to the handler: activeJobs++
HandlerEnter(w) ==
  /\ w <= started
  /\ QueueDelivers
  /\ fetched < MaxPoolJobs
  /\ SubscriptionFree(w)
  /\ fetched' = fetched + 1
  /\ inHandler' = [inHandler EXCEPT ![w] = @ + 1]
  /\ activeJobs' = [activeJobs EXCEPT ![w] = @ + 1]
  /\ UNCHANGED <<deliveryVars, pollVars, extraVars>>
  /\ UNCHANGED <<started, isRunning, settled, isShuttingDown, shutPc,
                 stopState, timedOut, atBegin, shutdownStarts, closeCalls,
                 triggers, firstSignal>>

\* a handler of worker w makes its last write of the Job row (completed,
\* or failed in the catch block)
HandlerSettle(w) ==
  /\ shutPc # "exited"
  /\ settled[w] < inHandler[w]
  /\ settled' = [settled EXCEPT ![w] = @ + 1]
  /\ atBegin' = [atBegin EXCEPT
                   ![w] = IF @ = "running" THEN "written" ELSE @]
  /\ UNCHANGED <<deliveryVars, pollVars, extraVars>>
  /\ UNCHANGED <<started, isRunning, activeJobs, inHandler, fetched,
                 isShuttingDown, shutPc, stopState, timedOut, shutdownStarts,
                 closeCalls, triggers, firstSignal>>

\* the finally block of the handler: activeJobs--
HandlerLeave(w) ==
  /\ shutPc # "exited"
  /\ settled[w] > 0
  /\ settled' = [settled EXCEPT ![w] = @ - 1]
  /\ inHandler' = [inHandler EXCEPT ![w] = @ - 1]
  /\ activeJobs' = [activeJobs EXCEPT ![w] = @ - 1]
  /\ UNCHANGED <<deliveryVars, pollVars, extraVars>>
  /\ UNCHANGED <<started, isRunning, fetched, isShuttingDown, shutPc,
                 stopState, timedOut, atBegin, shutdownStarts, closeCalls,
                 triggers, firstSignal>>

\* variant: every trigger starts the shutdown sequence
AlreadyShuttingDownNever == FALSE

\* "if (this.isShuttingDown) return"
AlreadyShuttingDown == isShuttingDown

\* A signal or an uncaught error calls shutdown(signal).  The first call
\* sets isShuttingDown and calls stop() of every worker, which clears
\* isRunning and waits while the worker has active jobs; a later call
\* returns at once.
Trigger(sig) ==
  /\ started = WORKER_COUNT
  /\ shutPc # "exited"
  /\ triggers < MaxTriggers
  /\ triggers' = triggers + 1
  /\ IF AlreadyShuttingDown
       THEN UNCHANGED <<isRunning, isShuttingDown, shutPc, stopState,
                        atBegin, shutdownStarts, firstSignal>>
     ELSE /\ isShuttingDown' = TRUE
          /\ shutdownStarts' = shutdownStarts + 1
          /\ firstSignal' = IF shutdownStarts = 0 THEN sig ELSE firstSignal
          /\ shutPc' = "stopping"
          /\ isRunning' = [w \in WorkerIds |-> FALSE]
          /\ stopState' = [w \in WorkerIds |->
                             IF isRunning[w] /\ activeJobs[w] > 0
                               THEN "waiting" ELSE "returned"]
          /\ atBegin' = [w \in WorkerIds |->
                           IF shutdownStarts > 0 THEN atBegin[w]
                           ELSE IF settled[w] < inHandler[w] THEN "running"
                           ELSE "none"]
  /\ UNCHANGED <<deliveryVars, pollVars, extraVars>>
  /\ UNCHANGED <<started, activeJobs, inHandler, settled, fetched, timedOut,
                 closeCalls>>

\* variant: stop() returns without looking at activeJobs
StopWaitOverAtOnce(w) == TRUE

\* "while (this.activeJobs > 0 && ...)": the wait of stop() ends when the
\* worker has no active job
StopWaitOver(w) == activeJobs[w] = 0

\* one look of the wait loop of stop(): the worker is idle, or the 30 s
\* have passed
StopPoll(w) ==
  /\ shutPc = "stopping"
  /\ stopState[w] = "waiting"
  /\ stopState' = [stopState EXCEPT ![w] = "returned"]
  /\ \/ StopWaitOver(w) /\ timedOut' = timedOut
     \/ ~StopWaitOver(w) /\ timedOut' = [timedOut EXCEPT ![w] = TRUE]
  /\ UNCHANGED <<deliveryVars, pollVars, extraVars>>
  /\ UNCHANGED <<started, isRunning, activeJobs, inHandler, settled, fetched,
                 isShuttingDown, shutPc, atBegin, shutdownStarts, closeCalls,
                 triggers, firstSignal>>

\* Promise.all of the stop() calls has resolved: closeQueue() stops the
\* queue, whose subscriptions fetch no further job
CloseQueue ==
  /\ shutPc = "stopping"
  /\ \A w \in WorkerIds : stopState[w] = "returned"
  /\ shutPc' = "closing"
  /\ closeCalls' = closeCalls + 1
  /\ UNCHANGED <<deliveryVars, pollVars, extraVars>>
  /\ UNCHANGED <<started, isRunning, activeJobs, inHandler, settled, fetched,
                 isShuttingDown, stopState, timedOut, atBegin, shutdownStarts,
                 triggers, firstSignal>>

\* boss.stop has resolved (its handlers ended or its timeout passed):
\* process.exit
Exit ==
  /\ shutPc = "closing"
  /\ shutPc' = "exited"
  /\ UNCHANGED <<deliveryVars, pollVars, extraVars>>
  /\ UNCHANGED <<started, isRunning, activeJobs, inHandler, settled, fetched,
                 isShuttingDown, stopState, timedOut, atBegin, shutdownStarts,
                 closeCalls, triggers, firstSignal>>

InitPool ==
  /\ EngineAtRest
  /\ dbFaults = FALSE
  /\ PoolOff
  /\ PollOff
  /\ ExtraOff("none")

NextPool ==
  \/ WorkerStart
  \/ \E w \in WorkerIds : HandlerEnter(w)
  \/ \E w \in WorkerIds : HandlerSettle(w)
  \/ \E w \in WorkerIds : HandlerLeave(w)
  \/ \E sig \in Signals : Trigger(sig)
  \/ \E w \in WorkerIds : StopPoll(w)
  \/ CloseQueue
  \/ Exit

SpecPool == InitPool /\ [][NextPool]_vars

\* ------------------------------------------- polling variant
\* findMany({ where: { status: "pending" }, orderBy: createdAt }): the
\* pending rows from row j on, in creation order
RECURSIVE PendingFrom(_)
PendingFrom(j) ==
  IF j > MaxPollJobs THEN <<>>
  ELSE (IF pjob[j].status = "pending"
          THEN <<[id |-> j, attempts |-> pjob[j].attempts]>>
          ELSE <<>>) \o PendingFrom(j + 1)

\* take: n
Take(q, n) == SubSeq(q, 1, IF Len(q) < n THEN Len(q) ELSE n)

\* runWorker starts: it reads up to TakeLimit pending rows
PollFetch(i) ==
  /\ rpc[i] = "idle"
  /\ ticks[i] < MaxTicks
  /\ ticks' = [ticks EXCEPT ![i] = @ + 1]
  /\ rjobs' = [rjobs EXCEPT ![i] = Take(PendingFrom(1), TakeLimit)]
  /\ ridx' = [ridx EXCEPT ![i] = 1]
  /\ rpc' = [rpc EXCEPT ![i] = "loop"]
  /\ UNCHANGED <<deliveryVars, poolVars, extraVars, pjob, pexec, claimed, plan>>

\* variant: the claim is conditional on the row id only
ClaimMatchesIdOnly(row, snapshot) == TRUE

\* the where clause of the claim: the row is still pending and its
\* attempts are those the instance read
ClaimMatches(row, snapshot) ==
  row.status = "pending" /\ row.attempts = snapshot.attempts

\* the row instance i is at
Current(i) == rjobs[i][ridx[i]]

\* One turn of the for loop up to the claim.  A row at maxAttempts is
\* skipped; otherwise updateMany sets the row in_progress if the where
\* clause matches, and the instance goes on to the next row if it
\* matched nothing.
PollClaim(i) ==
  /\ rpc[i] = "loop"
  /\ ridx[i] <= Len(rjobs[i])
  /\ LET snapshot == Current(i) IN
       IF \/ snapshot.attempts >= MaxAttempts
          \/ ~ClaimMatches(pjob[snapshot.id], snapshot)
         THEN /\ ridx' = [ridx EXCEPT ![i] = @ + 1]
              /\ UNCHANGED <<pjob, rpc, claimed>>
       ELSE /\ pjob' = [pjob EXCEPT ![snapshot.id].status = "in_progress"]
            /\ rpc' = [rpc EXCEPT ![i] = "run"]
            /\ claimed' = [claimed EXCEPT
                             ![snapshot.id][snapshot.attempts] = @ + 1]
            /\ ridx' = ridx
  /\ UNCHANGED <<deliveryVars, poolVars, extraVars, rjobs, ticks, pexec, plan>>

\* the row after the catch block: attempts of the snapshot plus one,
\* failed when they reach maxAttempts, pending otherwise
PollFailedRow(snapshot) ==
  [attempts |-> snapshot.attempts + 1,
   status |-> IF snapshot.attempts + 1 >= MaxAttempts
                THEN "failed" ELSE "pending"]

\* The engine has run for the claimed row: the row becomes completed, or
\* the catch block writes attempts, status and lastError.
PollFinish(i) ==
  /\ rpc[i] = "run"
  /\ LET snapshot == Current(i) IN
       /\ \E ok \in EngineOutcomes(pexec[snapshot.id] + 1) :
            pjob' = [pjob EXCEPT
                       ![snapshot.id] =
                         IF ok THEN [@ EXCEPT !.status = "completed"]
                         ELSE PollFailedRow(snapshot)]
       /\ pexec' = [pexec EXCEPT ![snapshot.id] = @ + 1]
  /\ ridx' = [ridx EXCEPT ![i] = @ + 1]
  /\ rpc' = [rpc EXCEPT ![i] = "loop"]
  /\ UNCHANGED <<deliveryVars, poolVars, extraVars, rjobs, ticks, claimed, plan>>

\* the for loop is over: runWorker returns
PollReturn(i) ==
  /\ rpc[i] = "loop"
  /\ ridx[i] > Len(rjobs[i])
  /\ rpc' = [rpc EXCEPT ![i] = "idle"]
  /\ UNCHANGED <<deliveryVars, poolVars, extraVars, pjob, rjobs, ridx, ticks, pexec,
                 claimed, plan>>

\* several runWorker instances over the same pending rows
InitPoll ==
  /\ EngineAtRest
  /\ dbFaults = FALSE
  /\ PoolOff
  /\ PollOff
  /\ ExtraOff("none")

NextPoll ==
  \/ \E i \in RunnerIds : PollFetch(i)
  \/ \E i \in RunnerIds : PollClaim(i)
  \/ \E i \in RunnerIds : PollFinish(i)
  \/ \E i \in RunnerIds : PollReturn(i)

SpecPoll == InitPoll /\ [][NextPoll]_vars

\* ------------------------------------------- the two workers side by side
\* the engine outcomes of the executions of one job, fixed in advance:
\* one for every execution the queue can make
PlanLen == RetryLimit + 1
Plans == [1..PlanLen -> BOOLEAN]

\* One job given to both workers: the queue-backed handler works on `job`,
\* one runWorker instance per tick on row 1 of the polling store; the
\* k-th execution of either has the outcome plan[k].  Job-row writes
\* succeed.
InitAttempts ==
  /\ EngineAtRest
  /\ dbFaults = FALSE
  /\ PoolOff
  /\ ExtraOff("none")
  /\ \E pl \in Plans :
       PollInit([j \in PollJobIds |->
                  IF j = 1 THEN PendingRow
                  ELSE [status |-> "completed", attempts |-> 0]], pl)

NextAttempts ==
  \/ HandlerStart
  \/ HandlerRetry
  \/ EngineRun
  \/ HandlerComplete
  \/ HandlerFail
  \/ \E i \in RunnerIds : PollFetch(i)
  \/ \E i \in RunnerIds : PollClaim(i)
  \/ \E i \in RunnerIds : PollFinish(i)
  \/ \E i \in RunnerIds : PollReturn(i)

SpecAttempts == InitAttempts /\ [][NextAttempts]_vars

\* ------------------------------------------- association helpers
AssocContacts == 0..1
AssocProps == 0..MaxRelProps

\* words of the message of an error body, as the destination spells them
Words == {"Duplicate", "duplicate", "DUPLICATE", "relation", "Invalid",
          "record"}

\* String.prototype.toLowerCase, word by word
LowerWord(w) ==
  CASE w \in {"Duplicate", "duplicate", "DUPLICATE"} -> "duplicate"
    [] w = "Invalid" -> "invalid"
    [] OTHER -> w
toLowerCase(m) == [k \in DOMAIN m |-> LowerWord(m[k])]

\* String.prototype.includes, for a one-word needle
includes(m, needle) == \E k \in DOMAIN m : m[k] = needle

\* message texts of an error body; <<>> is the empty string or no field
Messages == {<<>>, <<"Duplicate", "relation">>, <<"DUPLICATE">>,
             <<"duplicate">>, <<"Invalid", "record">>}

\* bodies of an answer: none at all (undefined / null), or an object with
\* the fields message and error
NoBody == [present |-> FALSE, message |-> <<>>, error |-> <<>>]
Bodies == {NoBody} \cup
          {[present |-> TRUE, message |-> m, error |-> e] :
             m \in Messages, e \in {<<>>, <<"Duplicate", "relation">>}}

\* answers to POST /associations/relations: axios resolves on 2xx and
\* rejects otherwise; status 0 is a network error without response
RelationAnswers ==
  {[status |-> s, data |-> d] : s \in {0, 200, 201, 204, 400, 401, 500},
                                d \in Bodies} \ 
  {a \in [status : {0}, data : Bodies] : a.data.present}

\* the answer is an HTTP 400 whose message tells, in whatever case, of a
\* duplicate
SaysDuplicate(a) ==
  /\ a.status = 400
  /\ a.data.present
  /\ \E k \in DOMAIN a.data.message :
       a.data.message[k] \in {"Duplicate", "duplicate", "DUPLICATE"}

\* variant: a duplicate answer is a failure like any other
isDuplicateNever(a) == FALSE

\* "const isDuplicate = status === 400 && (message.includes(...))"
isDuplicate(a) ==
  /\ a.status = 400
  /\ includes(toLowerCase(IF a.data.message # <<>> THEN a.data.message
                          ELSE a.data.error), "duplicate")

NoResult == [kind |-> "none", alreadyExists |-> FALSE]

\* createRelationBetweenRecords for the answer a: the result it returns,
\* or "threw" when the catch block calls toString on a missing body
createRelationBetweenRecords(assoc, first, second, a) ==
  IF assoc = 0 \/ first = 0 \/ second = 0
    THEN [kind |-> "failure", alreadyExists |-> FALSE]
  ELSE IF Is2xx(a.status)
    THEN [kind |-> IF a.status \in {200, 201} THEN "success" ELSE "failure",
          alreadyExists |-> FALSE]
  ELSE IF ~a.data.present
    THEN [kind |-> "threw", alreadyExists |-> FALSE]
  ELSE IF isDuplicate(a)
    THEN [kind |-> "success", alreadyExists |-> TRUE]
  ELSE [kind |-> "failure", alreadyExists |-> FALSE]

\* what the destination can answer to a relation request: a relation that
\* exists is refused as a duplicate; any request can fail otherwise
DestinationAnswers(t) ==
  {a \in RelationAnswers :
     /\ a.status \in {200, 201, 204} => t \notin relations
     /\ SaysDuplicate(a) => t \in relations}

AssocFrame ==
  UNCHANGED <<deliveryVars, poolVars, pollVars, searchVars, limiterVars,
              payloadVars, ingestVars, batchVars,
                 coverVars,
                 normVars,
                 concurrentVars,
                 dedupVars,
                 claimVars,
                 liveVars,
                 tallyVars>>

\* ensureContactPropertyAssociation is called; without both ids it
\* returns at once
AssocCall ==
  /\ apc = "idle"
  /\ aCalls < MaxAssocCalls
  /\ aCalls' = aCalls + 1
  /\ \E c \in AssocContacts, p \in AssocProps :
       /\ aArgs' = [contact |-> c, property |-> p]
       /\ IF c = 0 \/ p = 0
            THEN apc' = "idle" /\ aOutcome' = "returned"
          ELSE apc' = "lookup" /\ aOutcome' = "none"
  /\ relRes' = NoResult
  /\ relAnswer' = [status |-> 0, data |-> NoBody]
  /\ aAssoc' = 0
  /\ UNCHANGED <<relations, okCount>>
  /\ AssocFrame

\* getAssociationIdBetween: the id of the matching definition, or
\* undefined (no match, unexpected shape, any error)
AssocDefinition ==
  /\ apc = "lookup"
  /\ \E found \in BOOLEAN :
       IF found THEN aAssoc' = 1 /\ apc' = "name" /\ aOutcome' = aOutcome
       ELSE aAssoc' = 0 /\ apc' = "idle" /\ aOutcome' = "returned"
  /\ UNCHANGED <<aArgs, aCalls, relations, relRes, relAnswer, okCount>>
  /\ AssocFrame

\* the contact's name: the local row (the lookup may fail), else the
\* destination's contact (the fetch may fail); both failures are caught
AssocName ==
  /\ apc = "name"
  /\ \E local \in {"found", "none", "error"},
        fetch \in {"ok", "error"} :
       apc' = "relate"
  /\ UNCHANGED <<aArgs, aCalls, aAssoc, aOutcome, relations, relRes,
                 relAnswer, okCount>>
  /\ AssocFrame

\* variant: an exception of createRelationBetweenRecords leaves
\* ensureContactPropertyAssociation
EnsureRethrows(res) == IF res.kind = "threw" THEN "threw" ELSE "returned"

\* the try / catch around the relation request: logged, never rethrown
EnsureCatches(res) == "returned"

\* the relation request and its answer
AssocRelation ==
  /\ apc = "relate"
  /\ LET t == <<aAssoc, aArgs.contact, aArgs.property>> IN
     \E a \in DestinationAnswers(t) :
       LET res == createRelationBetweenRecords(aAssoc, aArgs.contact,
                                               aArgs.property, a) IN
         /\ relAnswer' = a
         /\ relRes' = res
         /\ relations' = IF a.status \in {200, 201, 204}
                           THEN relations \cup {t} ELSE relations
         /\ okCount' = IF res.kind = "success"
                         THEN [okCount EXCEPT ![aArgs.property] = @ + 1]
                       ELSE okCount
         /\ aOutcome' = EnsureCatches(res)
  /\ apc' = "idle"
  /\ UNCHANGED <<aArgs, aCalls, aAssoc>>
  /\ AssocFrame

InitAssoc ==
  /\ EngineAtRest
  /\ dbFaults = FALSE
  /\ PoolOff
  /\ PollOff
  /\ ExtraOff("assoc")
  /\ AssocOff

NextAssoc ==
  \/ AssocCall
  \/ AssocDefinition
  \/ AssocName
  \/ AssocRelation

SpecAssoc == InitAssoc /\ [][NextAssoc]_vars

\* ------------------------------------------- search helpers on their own
SearchFrame ==
  UNCHANGED <<deliveryVars, poolVars, pollVars, assocVars, limiterVars,
              payloadVars, ingestVars, batchVars,
                 coverVars,
                 normVars,
                 concurrentVars,
                 dedupVars,
                 claimVars,
                 liveVars,
                 tallyVars>>

\* findGhlContactByEmailOrPhone is called with or without email and
\* phone; r1 and r2 are the destination's answers to its requests
CallContactSearch ==
  /\ \E email \in BOOLEAN, phone \in BOOLEAN :
     \E r1 \in Responses, r2 \in Responses :
       search' = [kind |-> "contact", email |-> email, phone |-> phone,
                  address |-> FALSE, r1 |-> r1, r2 |-> r2,
                  out |-> findGhlContactByEmailOrPhone(email, phone,
                                                       r1, r2, 1)]
  /\ SearchFrame

\* findGhlPropertyByAddress is called with or without an address
CallPropertySearch ==
  /\ \E address \in BOOLEAN, r1 \in Responses :
       LET f == findGhlPropertyByAddress(r1, 1) IN
         search' = [kind |-> "property", email |-> FALSE, phone |-> FALSE,
                    address |-> address, r1 |-> r1, r2 |-> NoSearch.r2,
                    out |-> IF address
                              THEN [id |-> f.id, thrown |-> f.thrown,
                                    reqs |-> 1]
                            ELSE NoSearch.out]
  /\ SearchFrame

InitSearch ==
  /\ EngineAtRest
  /\ dbFaults = FALSE
  /\ PoolOff
  /\ PollOff
  /\ ExtraOff("search")
  /\ SearchOff

NextSearch ==
  \/ CallContactSearch
  \/ CallPropertySearch

SpecSearch == InitSearch /\ [][NextSearch]_vars

\* ------------------------------------------- rate limiter
LimiterFrame ==
  UNCHANGED <<deliveryVars, poolVars, pollVars, assocVars, searchVars,
              payloadVars, ingestVars, batchVars,
                 coverVars,
                 normVars,
                 concurrentVars,
                 dedupVars,
                 claimVars,
                 liveVars,
                 tallyVars>>

\* variant: the "failed" handler returns nothing
FailedHandlerSilent(status) == 0

\* ghlLimiter.on("failed"): 60000 for a 429 answer, nothing (0) otherwise
FailedHandler(status) == IF status = 429 THEN RetryDelay ELSE 0

\* rateLimitedRequest(fn): the request is handed to ghlLimiter.schedule
LimiterSchedule(q) ==
  /\ lim[q].pc = "idle"
  /\ lim' = [lim EXCEPT ![q].pc = "queued"]
  /\ LimiterFrame

\* The limiter runs fn and the destination answers.  A 2xx answer resolves
\* the caller's promise.  On a failure the limiter asks the "failed"
\* handler: a number makes it run the same request again after that many
\* milliseconds; otherwise the promise rejects with the error.
LimiterRun(q) ==
  /\ lim[q].pc = "queued"
  /\ \E status \in Statuses :
       LET wait == IF Is2xx(status) THEN 0 ELSE FailedHandler(status) IN
         /\ wait > 0 => Len(lim[q].answers) + 1 < MaxLimiterRuns
         /\ lim' = [lim EXCEPT ![q] =
                      [pc |-> IF wait > 0 THEN "waiting" ELSE "settled",
                       answers |-> Append(lim[q].answers, status),
                       result |-> IF Is2xx(status) THEN "resolved"
                                  ELSE IF wait > 0 THEN "none"
                                  ELSE "rejected",
                       error |-> IF Is2xx(status) \/ wait > 0 THEN 0
                                 ELSE IF status = 0 THEN -1 ELSE status]]
  /\ LimiterFrame

\* the delay the handler asked for has passed: the request is queued again
LimiterRetry(q) ==
  /\ lim[q].pc = "waiting"
  /\ lim' = [lim EXCEPT ![q].pc = "queued"]
  /\ LimiterFrame

InitLimiter ==
  /\ EngineAtRest
  /\ dbFaults = FALSE
  /\ PoolOff
  /\ PollOff
  /\ ExtraOff("limiter")
  /\ LimiterOff

NextLimiter ==
  \/ \E q \in 1..MaxLimiterCalls : LimiterSchedule(q)
  \/ \E q \in 1..MaxLimiterCalls : LimiterRun(q)
  \/ \E q \in 1..MaxLimiterCalls : LimiterRetry(q)

SpecLimiter == InitLimiter /\ [][NextLimiter]_vars

\* ------------------------------------------- contact payload
PayloadFrame ==
  UNCHANGED <<deliveryVars, poolVars, pollVars, assocVars, searchVars,
              limiterVars, ingestVars, batchVars,
                 coverVars,
                 normVars,
                 concurrentVars,
                 dedupVars,
                 claimVars,
                 liveVars,
                 tallyVars>>

\* JavaScript values a normalizer can be given: strings as themselves,
\* numbers written "#n", and the two tokens null and undefined
JsStrings == {"", " ", "yes", "No", "abc", "1,500", "sfr", "constructor",
              "Redfin", "usa", "VA", "12345"}
JsNumbers == {"#0", "#5", "#70000", "#NaN"}
JsValues == JsStrings \cup JsNumbers \cup {"null", "undefined"}

IsString(v) == v \notin JsNumbers \cup {"null", "undefined"}

\* "!v": null, undefined, the empty string, 0 and NaN are falsy
Falsy(v) == v \in {"null", "undefined", "", "#0", "#NaN"}

\* String.prototype.trim on the texts
trim(v) == IF v = " " THEN "" ELSE v

\* String.prototype.toLowerCase on the source texts
lowerCase(v) ==
  CASE v = "No" -> "no"
    [] v = "TRUE" -> "true"
    [] v = "VA" -> "va"
    [] v = "Redfin" -> "redfin"
    [] OTHER -> v

\* "x ?? undefined"
OrUndefined(v) == IF v = "null" THEN "undefined" ELSE v

\* "x || \"\""
OrEmpty(v) == IF v = "null" THEN "" ELSE v

\* normalizedPool: "True", "False", or null for an absent or unrecognized
\* source value
normalizedPool(v) ==
  IF v = "null" THEN "null"
  ELSE IF lowerCase(v) \in {"yes", "true"} THEN "True"
  ELSE IF lowerCase(v) \in {"no", "false"} THEN "False"
  ELSE "null"

\* normalizeLiquidAssets: "if (!raw || raw.trim() === '')", then
\* raw.trim().toLowerCase(); trim is not a function of a number
normalizeLiquidAssets(v) ==
  IF Falsy(v) THEN "undefined"
  ELSE IF ~IsString(v) THEN "TypeError"
  ELSE IF trim(v) = "" THEN "undefined"
  ELSE IF lowerCase(trim(v)) = "yes" THEN "Over $20k"
  ELSE "undefined"

\* the contactPayload object literal
contactPayload(src) ==
  [top |-> [f \in TopFields |-> OrUndefined(src[f])],
   custom |->
     [f \in CustomFields |->
        CASE f = "bedrooms" -> OrEmpty(src["bedrooms"])
          [] f = "tax_value" -> OrUndefined(src["taxValue"])
          [] f = "pool" -> normalizedPool(src["pool"])
          [] f = "liquid_assets" ->
               normalizeLiquidAssets(src["liquidAssets"])]]

\* "for (const k of Object.keys(contactPayload)) ... delete": the keys of
\* the payload object whose value is undefined or null are deleted
StripNullKeys(obj) ==
  [obj EXCEPT !.top = [f \in TopFields |->
                         IF obj.top[f] \in {"undefined", "null"}
                           THEN "absent" ELSE obj.top[f]]]

\* JSON serialization of the request body: a property whose value is
\* undefined is left out, a null is written as null
Serialize(obj) ==
  [top |-> [f \in TopFields |->
              IF obj.top[f] = "undefined" THEN "absent" ELSE obj.top[f]],
   custom |-> [f \in CustomFields |->
                 IF obj.custom[f] = "undefined" THEN "absent"
                 ELSE obj.custom[f]]]

\* the payload object is built from the contact and its property
PayloadBuild ==
  /\ pay.pc = "idle"
  /\ pay' = [pay EXCEPT !.pc = "built", !.obj = contactPayload(pay.src)]
  /\ PayloadFrame

\* the cleanup loop
PayloadClean ==
  /\ pay.pc = "built"
  /\ pay' = [pay EXCEPT !.pc = "cleaned", !.obj = StripNullKeys(pay.obj)]
  /\ PayloadFrame

\* axios.post(`/contacts/`, contactPayload)
PayloadSend ==
  /\ pay.pc = "cleaned"
  /\ pay' = [pay EXCEPT !.pc = "sent", !.obj = Serialize(pay.obj)]
  /\ PayloadFrame

InitPayload ==
  /\ EngineAtRest
  /\ dbFaults = FALSE
  /\ PoolOff
  /\ PollOff
  /\ ExtraOff("payload")
  /\ \E src \in [SourceFields -> UNION {SourceValues(f) : f \in SourceFields}] :
       /\ \A f \in SourceFields : src[f] \in SourceValues(f)
       /\ pay = [pc |-> "idle", src |-> src, obj |-> NoObject]

NextPayload ==
  \/ PayloadBuild
  \/ PayloadClean
  \/ PayloadSend

SpecPayload == InitPayload /\ [][NextPayload]_vars

\* ------------------------------------------- webhook: one job per user
IngestFrame ==
  UNCHANGED <<deliveryVars, poolVars, pollVars, assocVars, searchVars,
              limiterVars, payloadVars, batchVars,
                 coverVars,
                 normVars,
                 concurrentVars,
                 dedupVars,
                 claimVars,
                 liveVars,
                 tallyVars>>

\* "if (!user.settings)": the user is skipped
NoSettings(u) == ~ing.settings[u]

\* what boss.send gives back: a job id, null (the code's "if (!jobId)"
\* branch), or a rejection
SendAnswers == {"id", "null", "throws"}

\* the id the queue gives to its next job
NextJobId == Cardinality(ing.queue) + 1

\* users.map(async ...): every callback runs up to its first await, so a
\* user without settings is resolved to null and boss.send is called for
\* every other user
IngestMap ==
  /\ ing.resp = 0
  /\ \A u \in UserIds : ing.cb[u] = "new"
  /\ ing' = [ing EXCEPT !.cb = [u \in UserIds |->
                                  IF NoSettings(u) THEN "null" ELSE "sending"]]
  /\ IngestFrame

\* boss.send settles for user u: with an id the callback goes on to create
\* the Job row, with null it logs the failure and resolves to null, and a
\* rejection rejects the callback
IngestSend(u) ==
  /\ ing.cb[u] = "sending"
  /\ \E a \in SendAnswers :
       ing' = CASE a = "id" ->
                     [ing EXCEPT !.cb[u] = "creating",
                                 !.jobId[u] = NextJobId,
                                 !.queue = @ \cup {[id |-> NextJobId,
                                                    userId |-> u]}]
                [] a = "null" -> [ing EXCEPT !.cb[u] = "null"]
                [] OTHER -> [ing EXCEPT !.cb[u] = "rejected"]
  /\ IngestFrame

\* prisma.job.create settles for user u: the row carries the queue's id and
\* the status pending; a rejected write rejects the callback
IngestCreate(u) ==
  /\ ing.cb[u] = "creating"
  /\ \E ok \in BOOLEAN :
       ing' = IF ok
                THEN [ing EXCEPT !.cb[u] = "job",
                                 !.rows = @ \cup {[id |-> ing.jobId[u],
                                                   userId |-> u,
                                                   status |-> "pending"]}]
              ELSE [ing EXCEPT !.cb[u] = "rejected"]
  /\ IngestFrame

\* Promise.all resolved: every callback resolved, to a row or to null; the
\* handler answers 200
IngestRespond ==
  /\ ing.resp = 0
  /\ \A u \in UserIds : ing.cb[u] \in {"null", "job"}
  /\ ing' = [ing EXCEPT !.resp = 200]
  /\ IngestFrame

\* Promise.all rejects with the first rejected callback and the outer catch
\* answers 500; the other callbacks go on
IngestFail ==
  /\ ing.resp = 0
  /\ \E u \in UserIds : ing.cb[u] = "rejected"
  /\ ing' = [ing EXCEPT !.resp = 500]
  /\ IngestFrame

InitIngest ==
  /\ EngineAtRest
  /\ dbFaults = FALSE
  /\ PoolOff
  /\ PollOff
  /\ ExtraOff("ingest")
  /\ \E st \in [UserIds -> BOOLEAN] :
       ing = [settings |-> st,
              cb |-> [u \in UserIds |-> "new"],
              jobId |-> [u \in UserIds |-> 0],
              queue |-> {}, rows |-> {}, resp |-> 0]

NextIngest ==
  \/ IngestMap
  \/ \E u \in UserIds : IngestSend(u)
  \/ \E u \in UserIds : IngestCreate(u)
  \/ IngestRespond
  \/ IngestFail

SpecIngest == InitIngest /\ [][NextIngest]_vars

\* ------------------------------------------- batch worker
\* "skip: offset, take: batchSize" with offset = batchIndex * batchSize
Slice(ps, batchIndex, batchSize) ==
  LET offset == batchIndex * batchSize
      last == IF offset + batchSize < Len(ps) THEN offset + batchSize
              ELSE Len(ps)
  IN IF offset >= Len(ps) THEN <<>> ELSE SubSeq(ps, offset + 1, last)

\* the batch handler up to the call of pushLeadsForUser: the Job row is set
\* to in_progress, processBatch loads the user (throwing without settings)
\* and fetches the slice of the job, and pushPropertiesBatch hands the
\* engine a synthetic job that names the user
BatchStart ==
  /\ bat.pc = "queued"
  /\ pc = "idle"
  /\ qstate = "created"
  /\ qstate' = "active"
  /\ invocations' = invocations + 1
  /\ engineOut' = "none"
  /\ report' = NoReport
  /\ \E ok \in JobWrites :
       /\ jobWriteFailed' = ~ok
       /\ job' = IF ok THEN [job EXCEPT !.status = "in_progress",
                                        !.attempts = @ + 1]
                 ELSE job
       /\ pc' = IF ~ok THEN "caught"
                ELSE IF ~hasSettings THEN "thrown" ELSE "load"
       /\ cause' = IF ok /\ ~hasSettings THEN "settings" ELSE "none"
       /\ bat' = [bat EXCEPT
                    !.pc = "running",
                    !.slice = IF ok /\ hasSettings
                                THEN Slice(SelectProperties, bat.batchIndex,
                                           bat.batchSize)
                              ELSE <<>>]
  /\ ResetLocals
  /\ createCalls' = NoCount
  /\ propPhase' = FALSE /\ ownerSeen' = {}
  /\ lastAuth' = FALSE /\ reqAny' = FALSE
  /\ sel' = "none"
  /\ UNCHANGED <<storeVars, dbFaults, retryCount, poolVars, pollVars,
                 assocVars, searchVars, limiterVars, payloadVars,
                 ingestVars,
                 coverVars,
                 normVars,
                 concurrentVars,
                 dedupVars,
                 claimVars,
                 liveVars,
                 tallyVars>>

\* processBatch returned: the batch handler sets the Job row to completed
BatchComplete == bat.pc = "running" /\ HandlerComplete

\* the batch handler's catch block: the Job row is set to failed with the
\* message and the error is thrown again
BatchFail == bat.pc = "running" /\ HandlerFail

InitBatch ==
  /\ contact \in [ContactIds -> FreshContact]
  /\ property \in [PropIds -> FreshProperty]
  /\ Canonical(contact, property)
  /\ hasSettings \in BOOLEAN
  /\ nAccounts \in AccountIds
  /\ dbFaults = FALSE
  /\ InitWorker
  /\ PoolOff
  /\ PollOff
  /\ ExtraOff("batch")
  /\ \E i \in 0..MaxBatchIndex, n \in 1..MaxBatchSize :
       bat = [pc |-> "queued", batchIndex |-> i, batchSize |-> n,
              slice |-> <<>>]
  /\ job = PendingJob
  /\ pc = "idle"
  /\ acct = 1 /\ ci = 1 /\ pi = 1
  /\ properties = <<>> /\ contactsToPush = <<>>
  /\ snap = NoMap
  /\ contactIdMap = NoMap
  /\ curContact = 0 /\ curProp = 0 /\ retries = 0
  /\ createCalls = NoCount
  /\ propPhase = FALSE
  /\ ownerSeen = {}
  /\ lastAuth = FALSE /\ reqAny = FALSE
  /\ cause = "none" /\ sel = "none"

NextBatch ==
  \/ BatchStart
  \/ LoadAndSelect
  \/ ContactSearch
  \/ ContactSearchPhone
  \/ ContactCreate
  \/ PropertySearch
  \/ OwnerSearch
  \/ OwnerSearchPhone
  \/ PropertyCreate
  \/ AssocLookup
  \/ AssocRelate
  \/ BatchComplete
  \/ BatchFail

SpecBatch == InitBatch /\ [][NextBatch]_vars

\* ------------------------------------------- the batch jobs of one run
CoverFrame ==
  UNCHANGED <<deliveryVars, poolVars, pollVars, assocVars, searchVars,
              limiterVars, payloadVars, ingestVars, batchVars,
                 normVars,
                 concurrentVars,
                 dedupVars,
                 claimVars,
                 liveVars,
                 tallyVars>>

\* Math.ceil(propertyCount / PROPERTIES_PER_BATCH)
batchCount(propertyCount) ==
  (propertyCount + PROPERTIES_PER_BATCH - 1) \div PROPERTIES_PER_BATCH

\* the user's matching properties with pushed = false, in the order of the
\* table (the query has no orderBy; the order is taken to be the same in
\* every query)
Unpushed ==
  SelectSeq([i \in 1..cov.count |-> i], LAMBDA p : p \notin cov.pushed)

\* the webhook counts the user's matching unpushed properties and sends one
\* job per batch index below batchCount
CoverEnqueue ==
  /\ cov.total = 0
  /\ \E n \in 1..MaxCounted :
       cov' = [cov EXCEPT !.count = n,
                          !.total = batchCount(n),
                          !.bpc = [b \in BatchIds |->
                                     IF b < batchCount(n) THEN "queued"
                                     ELSE "absent"]]
  /\ CoverFrame

\* processBatch of job b: findMany on pushed = false with skip and take
CoverRead(b) ==
  /\ cov.bpc[b] = "queued"
  /\ cov' = [cov EXCEPT !.bpc[b] = "read",
                        !.slice[b] = Slice(Unpushed, b, PROPERTIES_PER_BATCH)]
  /\ CoverFrame

\* pushLeadsForUser called by job b: its own findMany on pushed = false,
\* without skip and take
CoverSelect(b) ==
  /\ cov.bpc[b] = "read"
  /\ cov' = [cov EXCEPT !.bpc[b] = "running",
                        !.sel[b] = {p \in 1..cov.count : p \notin cov.pushed}]
  /\ CoverFrame

\* job b finishes: the properties of its run that were created or found at
\* the destination are marked pushed, the others stay unpushed
CoverFinish(b) ==
  /\ cov.bpc[b] = "running"
  /\ \E done \in SUBSET cov.sel[b] :
       cov' = [cov EXCEPT !.bpc[b] = "done",
                          !.pushed = @ \cup done]
  /\ CoverFrame

InitCover ==
  /\ EngineAtRest
  /\ dbFaults = FALSE
  /\ PoolOff
  /\ PollOff
  /\ ExtraOff("cover")
  /\ CoverOff

NextCover ==
  \/ CoverEnqueue
  \/ \E b \in BatchIds : CoverRead(b)
  \/ \E b \in BatchIds : CoverSelect(b)
  \/ \E b \in BatchIds : CoverFinish(b)

SpecCover == InitCover /\ [][NextCover]_vars

\* ------------------------------------------- normalizers
NormFrame ==
  UNCHANGED <<deliveryVars, poolVars, pollVars, assocVars, searchVars,
              limiterVars, payloadVars, ingestVars, batchVars, coverVars,
                 concurrentVars,
                 dedupVars,
                 claimVars,
                 liveVars,
                 tallyVars>>

\* v.replace(/,/g, "") and value.replace(/[\$,]/g, "") on the texts
StripCommas(s) == IF s = "1,500" THEN "1500" ELSE s

\* Number(s): the empty and the blank string give 0, a text that is not a
\* numeral gives NaN
Number(s) ==
  CASE s \in {"", " "} -> "#0"
    [] s = "1500" -> "#1500"
    [] s = "12345" -> "#12345"
    [] OTHER -> "#NaN"

\* parseFloat(s): no leading numeral gives NaN
parseFloat(s) ==
  CASE s = "1500" -> "#1500"
    [] s = "12345" -> "#12345"
    [] OTHER -> "#NaN"

isNaN(n) == n = "#NaN"

\* the value of a number that is not NaN
Val(n) ==
  CASE n = "#0" -> 0
    [] n = "#5" -> 5
    [] n = "#1500" -> 1500
    [] n = "#12345" -> 12345
    [] n = "#70000" -> 70000

\* value.toString() and String(value)
toString(v) ==
  CASE v = "#0" -> "0"
    [] v = "#5" -> "5"
    [] v = "#70000" -> "70000"
    [] v = "#NaN" -> "NaN"
    [] OTHER -> v

\* obj[key] on an object literal: an own key gives its value, a key of
\* Object.prototype gives the inherited member, any other key undefined
ProtoKeys == {"constructor"}
Lookup(own, key) ==
  IF key \in DOMAIN own THEN own[key]
  ELSE IF key \in ProtoKeys THEN "function"
  ELSE "undefined"

toNumber(v) ==
  IF v \in {"null", "undefined", ""} THEN "null"
  ELSE LET n == IF IsString(v) THEN Number(StripCommas(v)) ELSE v
       IN IF isNaN(n) THEN "null" ELSE n

toFloat(v) ==
  IF v \in {"null", "undefined", ""} THEN "null"
  ELSE LET n == IF IsString(v) THEN parseFloat(StripCommas(v)) ELSE v
       IN IF isNaN(n) THEN "null" ELSE n

normalizeYesNo(value) ==
  IF Falsy(value) THEN "null"
  ELSE LET normalized == trim(lowerCase(toString(value)))
       IN IF normalized \in {"yes", "true", "1"} THEN "Yes"
          ELSE IF normalized \in {"no", "false", "0"} THEN "No"
          ELSE "null"

normalizeWorkingWithRealtor(val) ==
  IF Falsy(val) THEN "No I am Not"
  ELSE IF ~IsString(val) THEN "TypeError"
  ELSE IF trim(val) = "" THEN "No I am Not"
  ELSE LET lower == lowerCase(trim(val))
       IN IF lower \in {"no", "n"} THEN "No I am Not"
          ELSE IF lower \in {"yes", "y"} THEN "Yes, I am"
          ELSE "No I am Not"

normalizeMLSStatus(raw) ==
  IF Falsy(raw) THEN "FALSE"
  ELSE IF ~IsString(raw) THEN "TypeError"
  ELSE IF lowerCase(trim(raw)) \in {"", "off market", "offmarket", "pa"}
    THEN "FALSE"
  ELSE "TRUE"

\* NaN compares false with both limits and falls through to the last band
normalizeHouseholdIncome(value) ==
  IF value \in {"null", "undefined"} THEN "undefined"
  ELSE LET numValue == IF IsString(value) THEN Number(StripCommas(value))
                       ELSE value
       IN IF ~isNaN(numValue) /\ Val(numValue) < 65000 THEN "Below $65k"
          ELSE IF ~isNaN(numValue) /\ Val(numValue) <= 90000
            THEN "65k - 90k"
          ELSE "Above 90k"

normalizeLoanType(value) ==
  IF Falsy(value) THEN "undefined"
  ELSE LET v == lowerCase(trim(toString(value)))
       IN CASE v \in {"conventional", "conventional with pmi"} ->
                 "conventional"
            [] v = "arm" -> "arm"
            [] v = "fha" -> "fha"
            [] v = "usda" -> "usda"
            [] v = "va" -> "va"
            [] v \in {"building or construction",
                      "building_or_construction", "construction"} ->
                 "building_or_construction"
            [] v \in {"not available", "not_available", "n/a", "#n/a", "na",
                      "unknown"} -> "not_available"
            [] OTHER -> "undefined"

\* the mappings object of normalizePropertyType, on the texts
PropertyMappings ==
  [k \in {"sfr", "residential", "condo", "duplex", "land", "other"} |->
     CASE k \in {"sfr", "residential"} -> "single_family"
       [] k = "condo" -> "condominium"
       [] k = "duplex" -> "duplex"
       [] OTHER -> "null"]

\* "return mappings[value] ?? null"
normalizePropertyType(input) ==
  IF Falsy(input) THEN "null"
  ELSE IF ~IsString(input) THEN "TypeError"
  ELSE LET found == Lookup(PropertyMappings, lowerCase(trim(input)))
       IN IF found \in {"null", "undefined"} THEN "null" ELSE found

LeadSources == {"Saw Sign", "On Zillow", "Redfin", "Home.com",
                "Facebook Marketplace", "Other"}

\* options.find((opt) => opt.toLowerCase() === value.toLowerCase())
normalizeLeadSource(value) ==
  IF Falsy(value) THEN "undefined"
  ELSE IF ~IsString(value) THEN "TypeError"
  ELSE IF \E opt \in LeadSources : lowerCase(opt) = lowerCase(value)
    THEN CHOOSE opt \in LeadSources : lowerCase(opt) = lowerCase(value)
  ELSE "undefined"

normalizeFreeAndClear(value) ==
  IF value \in {"null", "undefined"} THEN value
  ELSE IF IsString(value)
    THEN LET v == lowerCase(trim(value))
         IN IF v \in {"yes", "true"} THEN "TRUE"
            ELSE IF v \in {"no", "false"} THEN "FALSE"
            ELSE "undefined"
  ELSE "undefined"

\* the letters of the texts, for the 2- and 3-letter code tests
LettersOnly(raw) ==
  CASE raw \in {"1,500", "12345", "0", "5", "70000", ""} -> ""
    [] OTHER -> raw

UpperCase(s) ==
  CASE s = "No" -> "NO"
    [] s = "usa" -> "USA"
    [] s = "yes" -> "YES"
    [] s = "abc" -> "ABC"
    [] s = "sfr" -> "SFR"
    [] s = "NaN" -> "NAN"
    [] OTHER -> s

TextLen(s) ==
  CASE s = "" -> 0
    [] s \in {"No", "VA"} -> 2
    [] s \in {"yes", "abc", "sfr", "usa", "NaN"} -> 3
    [] OTHER -> 6

ALPHA3_TO_ALPHA2 == [k \in {"USA", "GBR", "CAN"} |->
                       CASE k = "USA" -> "US"
                         [] k = "GBR" -> "GB"
                         [] OTHER -> "CA"]

ALIASES == [k \in {"usa", "america", "uk"} |->
              IF k = "uk" THEN "GB" ELSE "US"]

\* normalizeCountry without the optional i18n-iso-countries library: a
\* 2-letter text is returned in upper case, a 3-letter text is looked up in
\* ALPHA3_TO_ALPHA2, then the normalized text is looked up in ALIASES
normalizeCountry(value) ==
  IF value \in {"null", "undefined"} THEN "null"
  ELSE LET raw == trim(toString(value))
           lettersOnly == LettersOnly(raw)
           code == UpperCase(lettersOnly)
           key == lowerCase(StripCommas(raw))
       IN IF raw = "" THEN "null"
          ELSE IF TextLen(lettersOnly) = 2 THEN code
          ELSE IF TextLen(lettersOnly) = 3
                  /\ Lookup(ALPHA3_TO_ALPHA2, code) # "undefined"
            THEN Lookup(ALPHA3_TO_ALPHA2, code)
          ELSE IF Lookup(ALIASES, key) # "undefined"
            THEN Lookup(ALIASES, key)
          ELSE "null"

\* normalizePostalCode with the default countryCode "US": a 5-digit ZIP is
\* returned, anything else is rejected
normalizePostalCode(postalCode) ==
  IF Falsy(postalCode) THEN "null"
  ELSE LET code == trim(toString(postalCode))
       IN IF code = "12345" THEN code ELSE "null"

Normalizers ==
  {"toNumber", "toFloat", "normalizeYesNo", "normalizeWorkingWithRealtor",
   "normalizeMLSStatus", "normalizeLiquidAssets", "normalizeHouseholdIncome",
   "normalizeLoanType", "normalizePropertyType", "normalizeLeadSource",
   "normalizeFreeAndClear", "normalizeCountry", "normalizePostalCode"}

Normalize(fn, v) ==
  CASE fn = "toNumber" -> toNumber(v)
    [] fn = "toFloat" -> toFloat(v)
    [] fn = "normalizeYesNo" -> normalizeYesNo(v)
    [] fn = "normalizeWorkingWithRealtor" -> normalizeWorkingWithRealtor(v)
    [] fn = "normalizeMLSStatus" -> normalizeMLSStatus(v)
    [] fn = "normalizeLiquidAssets" -> normalizeLiquidAssets(v)
    [] fn = "normalizeHouseholdIncome" -> normalizeHouseholdIncome(v)
    [] fn = "normalizeLoanType" -> normalizeLoanType(v)
    [] fn = "normalizePropertyType" -> normalizePropertyType(v)
    [] fn = "normalizeLeadSource" -> normalizeLeadSource(v)
    [] fn = "normalizeFreeAndClear" -> normalizeFreeAndClear(v)
    [] fn = "normalizeCountry" -> normalizeCountry(v)
    [] fn = "normalizePostalCode" -> normalizePostalCode(v)

\* the declared return type of each normalizer, as a set of values
NumberValues == {"#0", "#5", "#1500", "#12345", "#70000"}
OutputDomain(fn) ==
  CASE fn \in {"toNumber", "toFloat"} -> NumberValues \cup {"null"}
    [] fn = "normalizeYesNo" -> {"Yes", "No", "null"}
    [] fn = "normalizeWorkingWithRealtor" -> {"No I am Not", "Yes, I am"}
    [] fn = "normalizeMLSStatus" -> {"TRUE", "FALSE", "undefined"}
    [] fn = "normalizeLiquidAssets" ->
         {"Below $10k", "$10k - $20k", "Over $20k", "undefined"}
    [] fn = "normalizeHouseholdIncome" ->
         {"Below $65k", "65k - 90k", "Above 90k", "undefined"}
    [] fn = "normalizeLoanType" ->
         {"conventional", "arm", "fha", "usda", "va",
          "building_or_construction", "not_available", "undefined"}
    [] fn = "normalizePropertyType" ->
         {"single_family", "town_home", "condominium", "duplex", "triplex",
          "quadplex", "null"}
    [] fn = "normalizeLeadSource" -> LeadSources \cup {"undefined"}
    [] fn = "normalizeFreeAndClear" -> {"TRUE", "FALSE", "undefined", "null"}
    [] fn = "normalizeCountry" -> {"US", "GB", "CA", "NO", "VA", "null"}
    [] fn = "normalizePostalCode" -> {"12345", "null"}

\* one call of one normalizer
NormCall ==
  /\ \E fn \in Normalizers, v \in JsValues :
       norm' = [fn |-> fn, input |-> v, out |-> Normalize(fn, v)]
  /\ NormFrame

InitNorm ==
  /\ EngineAtRest
  /\ dbFaults = FALSE
  /\ PoolOff
  /\ PollOff
  /\ ExtraOff("norm")
  /\ NormOff

NextNorm == NormCall

SpecNorm == InitNorm /\ [][NextNorm]_vars

\* ------------------------------------------- runs on different workers
\* Jobs that different workers run at the same time, all selecting the same
\* local contact and the property it owns, in one destination account. The
\* destination answers every search truthfully.
ConcurrentFrame ==
  UNCHANGED <<deliveryVars, poolVars, pollVars, assocVars, searchVars,
              limiterVars, payloadVars, ingestVars, batchVars, coverVars,
              normVars,
                 dedupVars,
                 claimVars,
                 liveVars,
                 tallyVars>>

\* answers of the destination to a create request: created, or refused
CreateAnswers == {201, 422}

\* SelectProperties and contactsToPush of run j: the property when it is
\* not pushed, its owner when the owner is not pushed
RunSelect(j) ==
  /\ con.rpc[j] = "queued"
  /\ con' = [con EXCEPT !.rpc[j] = IF con.pPushed THEN "done"
                                   ELSE IF con.cPushed THEN "propertySearch"
                                   ELSE "contactSearch"]
  /\ ConcurrentFrame

\* findGhlContactByEmailOrPhone in run j: a found contact goes into the
\* run's contactIdMap, otherwise the run goes on to create it
RunContactSearch(j) ==
  /\ con.rpc[j] = "contactSearch"
  /\ con' = IF con.destContacts > 0
              THEN [con EXCEPT !.rpc[j] = "propertySearch", !.cmap[j] = TRUE]
            ELSE [con EXCEPT !.rpc[j] = "contactCreate"]
  /\ ConcurrentFrame

\* POST /contacts/ in run j
RunContactCreate(j) ==
  /\ con.rpc[j] = "contactCreate"
  /\ \E status \in CreateAnswers :
       con' = IF status = 201
                THEN [con EXCEPT !.rpc[j] = "propertySearch",
                                 !.cmap[j] = TRUE,
                                 !.cPushed = TRUE,
                                 !.destContacts = @ + 1]
              ELSE [con EXCEPT !.rpc[j] = "propertySearch"]
  /\ ConcurrentFrame

\* findGhlPropertyByAddress in run j: a found property is not created; a
\* property that is not found is created when the run holds the owner's
\* destination id, from its map or from the fallback search
RunPropertySearch(j) ==
  /\ con.rpc[j] = "propertySearch"
  /\ con' = IF con.destProps > 0 THEN [con EXCEPT !.rpc[j] = "done"]
            ELSE IF con.cmap[j] \/ con.destContacts > 0
              THEN [con EXCEPT !.rpc[j] = "propertyCreate"]
            ELSE [con EXCEPT !.rpc[j] = "done"]
  /\ ConcurrentFrame

\* POST of the property record in run j
RunPropertyCreate(j) ==
  /\ con.rpc[j] = "propertyCreate"
  /\ \E status \in CreateAnswers :
       con' = IF status = 201
                THEN [con EXCEPT !.rpc[j] = "done",
                                 !.pPushed = TRUE,
                                 !.destProps = @ + 1]
              ELSE [con EXCEPT !.rpc[j] = "done"]
  /\ ConcurrentFrame

InitConcurrent ==
  /\ EngineAtRest
  /\ dbFaults = FALSE
  /\ PoolOff
  /\ PollOff
  /\ ExtraOff("concurrent")
  /\ con = [rpc |-> [j \in RunIds |-> "queued"],
            cmap |-> [j \in RunIds |-> FALSE],
            cPushed |-> FALSE, pPushed |-> FALSE,
            destContacts |-> 0, destProps |-> 0]

NextConcurrent ==
  \/ \E j \in RunIds : RunSelect(j)
  \/ \E j \in RunIds : RunContactSearch(j)
  \/ \E j \in RunIds : RunContactCreate(j)
  \/ \E j \in RunIds : RunPropertySearch(j)
  \/ \E j \in RunIds : RunPropertyCreate(j)

SpecConcurrent == InitConcurrent /\ [][NextConcurrent]_vars

\* ------------------------------------------- search before create
\* One contact or one property in a single run and one account, with the
\* account holding a record for it or not. The destination does not lie:
\* a 2xx search answer carries the record's id exactly when the record
\* exists, and 404 is given only when it does not; any other status can
\* come whether or not the record exists.
DedupFrame ==
  UNCHANGED <<deliveryVars, poolVars, pollVars, assocVars, searchVars,
              limiterVars, payloadVars, ingestVars, batchVars, coverVars,
              normVars, concurrentVars,
                 claimVars,
                 liveVars,
                 tallyVars>>

Truthful(r, exists) ==
  /\ Is2xx(r.status) => (r.hasId <=> exists)
  /\ r.status = 404 => ~exists

\* the search of the loop body: findGhlContactByEmailOrPhone for a
\* contact, findGhlPropertyByAddress for a property; a result without id
\* sends the loop body on to the create request
DedupSearch ==
  /\ ded.pc = "search"
  /\ \E r1, r2 \in Responses :
       /\ Truthful(r1, ded.exists) /\ Truthful(r2, ded.exists)
       /\ LET out == IF ded.kind = "contact"
                       THEN findGhlContactByEmailOrPhone(
                              ded.email, ded.phone, r1, r2, 1)
                     ELSE findGhlPropertyByAddress(r1, 1)
          IN ded' = [ded EXCEPT
                       !.r1 = r1,
                       !.r2 = IF ded.kind = "contact" /\ out.reqs = 2
                                THEN r2 ELSE NoAnswer,
                       !.pc = IF out.thrown THEN "thrown"
                              ELSE IF out.id # 0 THEN "found"
                              ELSE "create"]
  /\ DedupFrame

\* the create request of the loop body
DedupCreate ==
  /\ ded.pc = "create"
  /\ \E status \in CreateAnswers :
       ded' = [ded EXCEPT !.pc = "done",
                          !.created = IF status = 201 THEN 1 ELSE 0]
  /\ DedupFrame

InitDedup ==
  /\ EngineAtRest
  /\ dbFaults = FALSE
  /\ PoolOff
  /\ PollOff
  /\ ExtraOff("dedup")
  /\ \E kind \in {"contact", "property"}, exists, email, phone \in BOOLEAN :
       /\ kind = "contact" => email \/ phone
       /\ kind = "property" => ~email /\ ~phone
       /\ ded = [kind |-> kind, exists |-> exists, email |-> email,
                 phone |-> phone, pc |-> "search", r1 |-> NoAnswer,
                 r2 |-> NoAnswer, created |-> 0]

NextDedup ==
  \/ DedupSearch
  \/ DedupCreate

SpecDedup == InitDedup /\ [][NextDedup]_vars

\* ------------------------------------------- producer and worker on a job
\* The webhook sends each job to the queue and then creates its Job row;
\* a worker can be handed the job as soon as it is in the queue.
ClaimFrame ==
  UNCHANGED <<deliveryVars, poolVars, pollVars, assocVars, searchVars,
              limiterVars, payloadVars, ingestVars, batchVars, coverVars,
              normVars, concurrentVars, dedupVars,
                 liveVars,
                 tallyVars>>

\* the job the producer's loop is at: the first one not yet dealt with
ProducerAt(j) ==
  /\ clm.resp = 0
  /\ \A k \in SentIds : k < j => clm.ppc[k] = "rowed"

\* boss.send of job j
ProducerSend(j) ==
  /\ ProducerAt(j)
  /\ clm.ppc[j] = "new"
  /\ clm' = [clm EXCEPT !.ppc[j] = "sent"]
  /\ ClaimFrame

\* prisma.job.create of the row of job j with status pending: a row with
\* that id makes the write fail on the primary key, the error leaves the
\* loop and the handler answers 500
ProducerCreate(j) ==
  /\ ProducerAt(j)
  /\ clm.ppc[j] = "sent"
  /\ clm' = IF clm.row[j] = NoRow
             THEN [clm EXCEPT !.ppc[j] = "rowed",
                             !.row[j] = [status |-> "pending",
                                         attempts |-> 0]]
           ELSE [clm EXCEPT !.ppc[j] = "failed", !.resp = 500]
  /\ ClaimFrame

\* every job was sent and has its row: the handler answers 200
ProducerRespond ==
  /\ clm.resp = 0
  /\ \A j \in SentIds : clm.ppc[j] = "rowed"
  /\ clm' = [clm EXCEPT !.resp = 200]
  /\ ClaimFrame

\* the handler is given job j: prisma.job.findUnique
ClaimFind(j) ==
  /\ clm.ppc[j] \in {"sent", "rowed", "failed"}
  /\ clm.wpc[j] = "idle"
  /\ clm' = [clm EXCEPT !.wpc[j] = "write",
                      !.found[j] = clm.row[j] # NoRow]
  /\ ClaimFrame

\* "if (existingJob) update else create": the update sets in_progress and
\* increments attempts; the create writes in_progress with attempts 1 and
\* fails on the primary key when the row was written in between
ClaimWrite(j) ==
  /\ clm.wpc[j] = "write"
  /\ clm' = IF clm.found[j]
             THEN [clm EXCEPT !.wpc[j] = "engine",
                             !.row[j] = [status |-> "in_progress",
                                         attempts |-> @.attempts + 1]]
           ELSE IF clm.row[j] = NoRow
             THEN [clm EXCEPT !.wpc[j] = "engine",
                             !.row[j] = [status |-> "in_progress",
                                         attempts |-> 1]]
           ELSE [clm EXCEPT !.wpc[j] = "caught"]
  /\ ClaimFrame

\* pushLeadsForUser is called and returns or throws; after a return the
\* row is set to completed
ClaimEngine(j) ==
  /\ clm.wpc[j] = "engine"
  /\ \E ok \in BOOLEAN :
       clm' = IF ok
               THEN [clm EXCEPT !.wpc[j] = "done",
                               !.engine[j] = @ + 1,
                               !.row[j].status = "completed"]
             ELSE [clm EXCEPT !.wpc[j] = "caught", !.engine[j] = @ + 1]
  /\ ClaimFrame

\* the catch block: upsert of the row to failed, then the error is thrown
\* to the queue
ClaimCatch(j) ==
  /\ clm.wpc[j] = "caught"
  /\ clm' = [clm EXCEPT !.wpc[j] = "rejected",
                      !.row[j] = IF @ = NoRow
                                   THEN [status |-> "failed", attempts |-> 1]
                                 ELSE [@ EXCEPT !.status = "failed"]]
  /\ ClaimFrame

InitClaim ==
  /\ EngineAtRest
  /\ dbFaults = FALSE
  /\ PoolOff
  /\ PollOff
  /\ ExtraOff("claim")
  /\ clm = [ppc |-> [j \in SentIds |-> "new"],
           wpc |-> [j \in SentIds |-> "idle"],
           found |-> [j \in SentIds |-> FALSE],
           row |-> [j \in SentIds |-> NoRow],
           engine |-> [j \in SentIds |-> 0],
           resp |-> 0]

NextClaim ==
  \/ \E j \in SentIds : ProducerSend(j)
  \/ \E j \in SentIds : ProducerCreate(j)
  \/ ProducerRespond
  \/ \E j \in SentIds : ClaimFind(j)
  \/ \E j \in SentIds : ClaimWrite(j)
  \/ \E j \in SentIds : ClaimEngine(j)
  \/ \E j \in SentIds : ClaimCatch(j)

SpecClaim == InitClaim /\ [][NextClaim]_vars

\* ------------------------------------------- a job to its end
\* One job from the start of its handler to the last write of its Job row.
\* The run makes its create requests one after the other through
\* rateLimitedRequest; every request gets an answer, of any status.
LiveFrame ==
  UNCHANGED <<deliveryVars, poolVars, pollVars, assocVars, searchVars,
              limiterVars, payloadVars, ingestVars, batchVars, coverVars,
              normVars, concurrentVars, dedupVars, claimVars,
                 tallyVars>>

\* the count of answers to the request in flight, up to MaxLiveTries
Counted(n) == IF n < MaxLiveTries THEN n + 1 ELSE n

\* the handler starts: the row is set to in_progress and the engine is
\* called
LiveStart ==
  /\ live.pc = "queued"
  /\ live' = [live EXCEPT !.row = "in_progress",
                          !.pc = IF live.left = 0 THEN "returned"
                                 ELSE "request"]
  /\ LiveFrame

\* the limiter runs the create request and the destination answers: on a
\* failure the "failed" handler is asked, and a delay makes the limiter
\* keep the job for another run; 401 / 403 are thrown by the engine; any
\* other answer ends the loop body
LiveRequest ==
  /\ live.pc = "request"
  /\ \E status \in Statuses :
       LET wait == IF Is2xx(status) THEN 0 ELSE FailedHandler(status) IN
         live' = [live EXCEPT
                    !.last = status,
                    !.tries = IF wait > 0 THEN Counted(@) ELSE 0,
                    !.left = IF wait > 0 \/ IsAuth(status) THEN @ ELSE @ - 1,
                    !.pc = IF wait > 0 THEN "waiting"
                           ELSE IF IsAuth(status) THEN "thrown"
                           ELSE IF live.left = 1 THEN "returned"
                           ELSE "request"]
  /\ LiveFrame

\* the delay has passed: the limiter runs the request again
LiveRetry ==
  /\ live.pc = "waiting"
  /\ live' = [live EXCEPT !.pc = "request"]
  /\ LiveFrame

\* pushLeadsForUser returned: the row is set to completed
LiveComplete ==
  /\ live.pc = "returned"
  /\ live' = [live EXCEPT !.pc = "finished", !.row = "completed"]
  /\ LiveFrame

\* pushLeadsForUser threw: the catch block sets the row to failed
LiveFail ==
  /\ live.pc = "thrown"
  /\ live' = [live EXCEPT !.pc = "finished", !.row = "failed"]
  /\ LiveFrame

InitLive ==
  /\ EngineAtRest
  /\ dbFaults = FALSE
  /\ PoolOff
  /\ PollOff
  /\ ExtraOff("live")
  /\ \E n \in 0..MaxLiveRequests :
       live = [pc |-> "queued", left |-> n, tries |-> 0, last |-> 0,
               row |-> "pending"]

NextLive ==
  \/ LiveStart
  \/ LiveRequest
  \/ LiveRetry
  \/ LiveComplete
  \/ LiveFail

\* the worker process keeps running and every request is answered: no
\* step that can be taken is put off forever
SpecLive ==
  /\ InitLive
  /\ [][NextLive]_vars
  /\ WF_vars(LiveStart)
  /\ WF_vars(LiveRequest)
  /\ WF_vars(LiveRetry)
  /\ WF_vars(LiveComplete)
  /\ WF_vars(LiveFail)

\* ------------------------------------------- polling variant, crashes
\* the tick count of an instance, counted up to MaxTicks
Ticked(n) == IF n < MaxTicks THEN n + 1 ELSE n

\* a tick, any number of times: runWorker reads up to TakeLimit pending
\* rows
TickFetch(i) ==
  /\ rpc[i] = "idle"
  /\ ticks' = [ticks EXCEPT ![i] = Ticked(@)]
  /\ rjobs' = [rjobs EXCEPT ![i] = Take(PendingFrom(1), TakeLimit)]
  /\ ridx' = [ridx EXCEPT ![i] = 1]
  /\ rpc' = [rpc EXCEPT ![i] = "loop"]
  /\ UNCHANGED <<deliveryVars, poolVars, extraVars, pjob, pexec, claimed, plan>>

\* the process dies after its claim and before the final update of the
\* row: what it held in memory is gone, the row is as the claim left it,
\* and the next start of the script is a new tick
PollCrash(i) ==
  /\ rpc[i] = "run"
  /\ rpc' = [rpc EXCEPT ![i] = "idle"]
  /\ rjobs' = [rjobs EXCEPT ![i] = <<>>]
  /\ ridx' = [ridx EXCEPT ![i] = 1]
  /\ UNCHANGED <<deliveryVars, poolVars, extraVars, pjob, ticks, pexec,
                 claimed, plan>>

NextCrash ==
  \/ \E i \in RunnerIds : TickFetch(i)
  \/ \E i \in RunnerIds : PollClaim(i)
  \/ \E i \in RunnerIds : PollFinish(i)
  \/ \E i \in RunnerIds : PollReturn(i)
  \/ \E i \in RunnerIds : PollCrash(i)

\* ticks keep coming and a process that is alive goes on with its loop; a
\* crash may happen and is never forced
SpecCrash ==
  /\ InitPoll
  /\ [][NextCrash]_vars
  /\ \A i \in RunnerIds :
       /\ WF_vars(TickFetch(i))
       /\ WF_vars(PollClaim(i))
       /\ WF_vars(PollFinish(i))
       /\ WF_vars(PollReturn(i))

\* ------------------------------------------- associations counted
\* The property loop of one account iteration, as far as associationCount
\* goes: the guard on the two external ids, the call of
\* ensureContactPropertyAssociation, the increment, and the count written
\* to accountResults at the end of the iteration.
TallyFrame ==
  UNCHANGED <<deliveryVars, poolVars, pollVars, assocVars, searchVars,
              limiterVars, payloadVars, ingestVars, batchVars, coverVars,
              normVars, concurrentVars, dedupVars, claimVars, liveVars>>

\* a turn of the loop reaches "if (ghlContactId && existingGhlId)" /
\* "if (ghlPropertyId && ghlContactId)" for property p with the ids it
\* holds (cid 0, pid FALSE: none); without both ids nothing is called or
\* counted
TallyGuard ==
  /\ tally.pc = "loop"
  /\ tally.turns < MaxTurns
  /\ \E p \in 1..MaxRelProps, cid \in AssocContacts, pid \in BOOLEAN :
       tally' = [tally EXCEPT !.turns = @ + 1,
                              !.prop = IF cid # 0 /\ pid THEN p ELSE 0,
                              !.pc = IF cid # 0 /\ pid THEN "ensure"
                                     ELSE "loop"]
  /\ TallyFrame

\* ensureContactPropertyAssociation runs and returns: no definition found,
\* or the relation request answered a; associationCount++ follows the
\* call.  The ghost `confirmed` counts the calls whose relation the
\* destination created or reported as existing.
TallyEnsure ==
  /\ tally.pc = "ensure"
  /\ \E found \in BOOLEAN :
     \E a \in {x \in RelationAnswers :
                 /\ Is2xx(x.status) => tally.prop \notin tally.rel
                 /\ SaysDuplicate(x) => tally.prop \in tally.rel} :
       LET res == IF found
                    THEN createRelationBetweenRecords(1, 1, tally.prop, a)
                  ELSE NoResult
           made == found /\ Is2xx(a.status)
       IN tally' = [tally EXCEPT
                      !.pc = "loop",
                      !.associationCount = @ + 1,
                      !.confirmed = IF res.kind = "success" THEN @ + 1
                                    ELSE @,
                      !.rel = IF made THEN @ \cup {tally.prop} ELSE @]
  /\ TallyFrame

\* the loop is over: accountResults.associations[account.name] takes the
\* count
TallyEnd ==
  /\ tally.pc = "loop"
  /\ tally' = [tally EXCEPT !.pc = "end",
                            !.reported = tally.associationCount]
  /\ TallyFrame

InitTally ==
  /\ EngineAtRest
  /\ dbFaults = FALSE
  /\ PoolOff
  /\ PollOff
  /\ ExtraOff("tally")
  /\ tally = [pc |-> "loop", turns |-> 0, prop |-> 0,
              associationCount |-> 0, confirmed |-> 0, rel |-> {},
              reported |-> 0]

NextTally ==
  \/ TallyGuard
  \/ TallyEnsure
  \/ TallyEnd

SpecTally == InitTally /\ [][NextTally]_vars

TypeOK ==
  /\ pc \in {"idle", "load", "contact", "contactPhone", "contactCreate",
             "property", "owner", "ownerPhone", "propertyCreate",
             "associate", "relate", "returned", "thrown", "caught"}
  /\ qstate \in {"created", "active", "retry", "completed", "failed"}
  /\ retryCount \in 0..RetryLimit
  /\ job.status \in {"pending", "in_progress", "completed", "failed"}
  /\ acct \in 1..nAccounts
  /\ \A c \in ContactIds : contact[c].ghlContactId \in ExtIds
  /\ \A p \in PropIds : property[p].ghlPropertyId \in ExtIds
  /\ shutPc \in {"run", "stopping", "closing", "exited"}
  /\ started \in 0..WORKER_COUNT
  /\ \A w \in WorkerIds : settled[w] <= inHandler[w]
  /\ \A i \in RunnerIds : rpc[i] \in {"idle", "loop", "run"}
  /\ \A j \in PollJobIds :
       /\ pjob[j].status \in {"pending", "in_progress", "completed", "failed"}
       /\ pjob[j].attempts \in 0..MaxAttempts

\* ================================================================ claims
\* the contact whose create request the engine is about to send
CreateTarget == contactsToPush[ci]

\* C1: every Property row with pushed = true has a non-null ghlPropertyId.
C1_PushedPropertyHasId ==
  \A p \in PropIds : property[p].pushed => property[p].ghlPropertyId # 0

\* a run ended after the primary account created a property and the row
\* was marked pushed
C1_Witness ==
  /\ pc = "idle" /\ job.status = "completed"
  /\ \E p \in PropIds : property[p].pushed /\ property[p].ghlPropertyId = 1

\* C2: while a secondary account is being processed, a Property row that
\* has pushed = true keeps pushed = true.
C2_SecondaryKeepsPushed ==
  [][acct > 1 =>
       \A p \in PropIds : property[p].pushed => property'[p].pushed]_vars

\* C3: Contact.ghlContactId and Property.ghlPropertyId are written only
\* while the primary account is being processed: no step of a secondary
\* account changes either field.
C3_IdsWrittenByPrimaryOnly ==
  [][acct > 1 =>
       /\ \A c \in ContactIds :
            contact'[c].ghlContactId = contact[c].ghlContactId
       /\ \A p \in PropIds :
            property'[p].ghlPropertyId = property[p].ghlPropertyId]_vars

\* C4: a Property row is set to pushed = true only in the primary account
\* and only if, earlier in the same run, the primary account gave the
\* external id of the property's owner (found by search or created).
C4_PushedNeedsOwnerId ==
  [][\A p \in PropIds :
       ~property[p].pushed /\ property'[p].pushed =>
         acct = 1 /\ property[p].ownerId \in ownerSeen]_vars

\* the primary account is being processed, it gave the owner's id and the
\* owner's property has been marked pushed
C4_Witness ==
  /\ acct = 1 /\ pc \in {"associate", "property"}
  /\ \E p \in PropIds :
       property[p].pushed /\ property[p].ownerId \in ownerSeen

\* C5: every Contact row with pushed = true has a non-null ghlContactId,
\* also after a 200 / 201 answer to the create request whose body carries
\* neither contact.id nor id.
C5_PushedContactHasId ==
  \A c \in ContactIds : contact[c].pushed => contact[c].ghlContactId # 0

\* C6 as stated: within one account at most one contact-create request is
\* issued per local contact, i.e. whenever a create request is about to be
\* sent, none was sent for that contact in this account before.
C6_OneCreateRequest ==
  [][pc = "contactCreate" => createCalls[CreateTarget] = 0]_vars

\* C6 amended: within one account at most one contact-create call is made
\* per local contact, and its request is sent again only by the rate
\* limiter, after the destination answered the previous sending with 429.
C6_OneCreateCall ==
  /\ \A c \in ContactIds : createCalls[c] <= 1
  /\ pc = "contactCreate" /\ createCalls[CreateTarget] = 1 => retries > 0

\* two selected properties share their owner, whose create request was
\* answered 429 and is about to be sent again by the limiter
C6_Witness ==
  /\ pc = "contactCreate" /\ retries > 0
  /\ createCalls[CreateTarget] = 1
  /\ Len(properties) = 2
  /\ property[properties[1]].ownerId = property[properties[2]].ownerId

\* C7: within one account every contact-create request is issued before
\* the first property-create request and the first association request of
\* that account.
C7_ContactsBeforeProperties ==
  pc = "contactCreate" => ~propPhase

\* in one account iteration a contact was created and a property-create or
\* association request followed
C7_Witness ==
  /\ propPhase
  /\ \E c \in ContactIds : createCalls[c] = 1

\* C8: when no unpushed property matches the user's filters the run issues
\* no destination request, writes no Contact or Property row, returns
\* normally, and the worker records the job as completed.
C8_EmptySelection ==
  /\ [](sel = "empty" =>
          /\ ~reqAny
          /\ pc \in {"returned", "idle"}
          /\ pc = "idle" => job.status = "completed")
  /\ [][sel' = "empty" => contact' = contact /\ property' = property]_vars

\* a run over an empty selection has ended, after an earlier run delivered
\* a property
C8_Witness ==
  /\ sel = "empty" /\ pc = "idle" /\ job.status = "completed"
  /\ \E p \in PropIds : property[p].pushed

\* C9: a failure confined to one contact or property (a destination answer
\* other than 401 / 403, a network error, an error writing the local row,
\* the backfill included) never makes pushLeadsForUser throw: the engine
\* throws only for missing user / settings and for 401 / 403.
C9_EntityFailureConfined ==
  pc = "thrown" => cause \in {"settings", "auth"}

\* C10: a 401 / 403 answer to any destination request makes
\* pushLeadsForUser throw at once and the worker marks the Job failed.
C10_AuthAlwaysThrows ==
  lastAuth => \/ pc = "thrown"
              \/ pc = "idle" /\ job.status = "failed"

\* C11: whenever the delivery engine throws inside the job handler, the
\* handler writes status = failed and lastError = the error message to the
\* Job row (unless that write is itself rejected) and then rejects with the
\* same error; the handler never resolves after an engine error.
C11_EngineErrorRejects ==
  /\ [][pc = "thrown" =>
          /\ report'.kind = "rejected" /\ report'.err = cause
          /\ ~jobWriteFailed' =>
               job'.status = "failed" /\ job'.lastError = cause]_vars
  /\ [](report.kind = "resolved" => engineOut # "thrown")

\* the engine threw, the Job row carries failed and the error, and the
\* handler rejected with that error
C11_Witness ==
  /\ pc = "idle" /\ engineOut = "thrown"
  /\ report.kind = "rejected" /\ report.err \in {"settings", "auth", "write"}
  /\ job.status = "failed" /\ job.lastError = report.err

\* C12: a rejected write of the Job row never changes what the handler
\* reports: it resolves when the engine returned, and rejects with the
\* engine's error when the engine threw.
C12_WriteFaultKeepsReport ==
  report.kind # "none" =>
    /\ engineOut = "returned" => report.kind = "resolved"
    /\ engineOut = "thrown" => report.kind = "rejected" /\ report.err = cause

\* C13: a job sent with retryLimit 3 and tracked with maxAttempts 3 has its
\* handler invoked at most 3 times and its attempts never exceed
\* maxAttempts.
C13_AtMostMaxAttempts ==
  invocations <= MaxAttempts /\ job.attempts <= MaxAttempts

\* C14: the status of a Job row changes only from pending to in_progress,
\* from in_progress to completed or failed, and from failed to in_progress.
C14_StatusEdges ==
  [][job'.status # job.status =>
       <<job.status, job'.status>> \in
         {<<"pending", "in_progress">>, <<"in_progress", "completed">>,
          <<"in_progress", "failed">>, <<"failed", "in_progress">>}]_vars

\* handler invocations in flight in workers 1..n
RECURSIVE JobsInFlight(_)
JobsInFlight(n) == IF n = 0 THEN 0 ELSE inHandler[n] + JobsInFlight(n - 1)

C18_NoNewJobAfterShutdown ==
  [][isShuttingDown =>
       /\ fetched' = fetched
       /\ \A w \in WorkerIds : inHandler'[w] <= inHandler[w]]_vars

\* C19: whatever the number and order of signals and uncaught errors, the
\* shutdown sequence is started exactly once, the queue is closed at most
\* once, and a later trigger neither stops workers nor closes the queue
C19_ShutdownOnce ==
  /\ [](/\ shutdownStarts <= 1
        /\ closeCalls <= 1
        /\ (triggers > 0 => shutdownStarts = 1 /\ isShuttingDown))
  /\ [][isShuttingDown /\ triggers' > triggers =>
          UNCHANGED <<isRunning, stopState, shutPc, closeCalls,
                      shutdownStarts, firstSignal>>]_vars

\* a second trigger arrived, and the sequence ran once up to closeQueue
C19_Witness ==
  /\ triggers = MaxTriggers
  /\ shutdownStarts = 1
  /\ closeCalls = 1

Processing(i) == IF rpc[i] = "run" THEN Current(i).id ELSE 0

\* C16: in the polling variant each pending row is claimed by at most one
\* runWorker instance per attempt, and no row is processed by two
\* instances at the same time
C16_SingleClaim ==
  /\ \A j \in PollJobIds : \A a \in 0..MaxAttempts : claimed[j][a] <= 1
  /\ \A i, k \in RunnerIds :
       Processing(i) # 0 /\ Processing(i) = Processing(k) => i = k
  /\ \A j \in PollJobIds :
       pjob[j].status = "in_progress" <=>
         \E i \in RunnerIds : Processing(i) = j

\* two instances read the same pending row; one claimed it and is
\* processing it, the claim of the other matched nothing
C16_Witness ==
  \E i, k \in RunnerIds :
    /\ i # k
    /\ Processing(i) = 1 /\ Current(i).attempts = 1
    /\ claimed[1][1] = 1
    /\ rpc[k] = "loop" /\ ridx[k] = 2
    /\ rjobs[k][1] = [id |-> 1, attempts |-> 1]

\* the queue makes no further delivery of the job
QueueFinished == qstate \in {"completed", "failed"} /\ pc = "idle"

\* the polling workers will not execute row 1 again
PollFinished == pjob[1].status \in {"completed", "failed"}

\* C17: for the same sequence of engine outcomes of one job, the polling
\* variant and the queue-backed worker execute the job the same number of
\* times and leave the Job row with the same status and attempts
C17_SameAttemptSemantics ==
  QueueFinished /\ PollFinished =>
    /\ invocations = pexec[1]
    /\ job.status = pjob[1].status
    /\ job.attempts = pjob[1].attempts

\* C21: a relation request answered with 200 or 201, and a repeated one
\* answered with HTTP 400 and a message containing "duplicate", are both
\* reported as success; so creating the same relation twice succeeds twice
C21_DuplicateIsSuccess ==
  relRes.kind # "none" =>
    /\ relAnswer.status \in {200, 201} =>
         relRes.kind = "success" /\ ~relRes.alreadyExists
    /\ SaysDuplicate(relAnswer) =>
         relRes.kind = "success" /\ relRes.alreadyExists

\* the same relation was requested twice: created the first time, refused
\* as a duplicate the second time, success both times
C21_Witness ==
  /\ aCalls = 2
  /\ <<aAssoc, aArgs.contact, aArgs.property>> \in relations
  /\ SaysDuplicate(relAnswer)
  /\ relRes.kind = "success"
  /\ okCount[aArgs.property] = 2

\* C22: ensureContactPropertyAssociation never throws, whatever the
\* association lookup, the name lookups and the relation request do,
\* a network error without response body included
C22_EnsureNeverThrows == aOutcome # "threw"

\* the relation request failed without a response, the catch block of
\* createRelationBetweenRecords threw, and the call still returned
C22_Witness ==
  /\ relAnswer.status = 0
  /\ relRes.kind = "threw"
  /\ aOutcome = "returned"

\* C23: a search helper throws exactly when one of the requests it issued
\* was answered 401 or 403; on 404 and on every other failure it returns
\* not-found; the contact search issues the phone search only after an
\* email search that returned no contact id
C23_SearchThrowsOnAuthOnly ==
  LET out == search.out
      last == IF out.reqs = 2 THEN search.r2 ELSE search.r1
  IN search.kind # "none" =>
       /\ out.thrown <=>
            \/ out.reqs >= 1 /\ IsAuth(search.r1.status)
            \/ out.reqs = 2 /\ IsAuth(search.r2.status)
       /\ out.reqs >= 1 /\ ~Is2xx(last.status) /\ ~IsAuth(last.status) =>
            out.id = 0 /\ ~out.thrown
       /\ out.reqs = 2 =>
            /\ search.kind = "contact" /\ search.email /\ search.phone
            /\ ~(Is2xx(search.r1.status) /\ search.r1.hasId)
            /\ ~IsAuth(search.r1.status)
       /\ out.reqs = 0 => out.id = 0 /\ ~out.thrown

\* the email search was answered 404 and the phone search that followed
\* was answered 403: the helper threw
C23_Witness ==
  /\ search.kind = "contact"
  /\ search.r1.status = 404
  /\ search.out.reqs = 2
  /\ search.r2.status = 403
  /\ search.out.thrown

\* the answers to the request of call q so far, and the last of them
Runs(q) == Len(lim[q].answers)
LastAnswer(q) == lim[q].answers[Runs(q)]

\* C24 as stated: a request answered 429 is not run again by the limiter,
\* and its error is surfaced to the caller
C24_LimiterDoesNotRetry ==
  \A q \in 1..MaxLimiterCalls : \A k \in 1..Runs(q) :
    lim[q].answers[k] = 429 =>
      k = Runs(q) /\ lim[q].result = "rejected" /\ lim[q].error = 429

\* C24, amended: the limiter runs a request again exactly after a 429
\* answer, a 429 is never surfaced to the caller, and the error of any
\* other failure is surfaced without another run
C24_LimiterRetries429 ==
  \A q \in 1..MaxLimiterCalls :
    /\ \A k \in 1..(Runs(q) - 1) : lim[q].answers[k] = 429
    /\ Runs(q) > 0 /\ LastAnswer(q) = 429 =>
         lim[q].pc \in {"waiting", "queued"} /\ lim[q].result = "none"
    /\ lim[q].result = "rejected" =>
         /\ ~Is2xx(LastAnswer(q)) /\ LastAnswer(q) # 429
         /\ lim[q].error = IF LastAnswer(q) = 0 THEN -1 ELSE LastAnswer(q)
    /\ lim[q].result = "resolved" => Is2xx(LastAnswer(q))
    /\ lim[q].pc = "settled" <=> lim[q].result # "none"

\* a request was answered 429, run again by the limiter, and rejected
\* with the error of its second run
C24_Witness ==
  \E q \in 1..MaxLimiterCalls :
    /\ Runs(q) = 2
    /\ lim[q].answers[1] = 429
    /\ lim[q].result = "rejected"
    /\ lim[q].error = 500

\* C25: the body of a contact-create request has no field whose value is
\* null or undefined, neither at the top level nor in a customFields entry
C25_NoNullInBody ==
  pay.pc = "sent" =>
    /\ \A f \in TopFields : pay.obj.top[f] \notin {"null", "undefined"}
    /\ \A f \in CustomFields : pay.obj.custom[f] \notin {"null", "undefined"}

\* C26: without the user or the user's settings pushLeadsForUser throws
\* before any destination request and before any write of a Contact or
\* Property row, and the worker records the Job as failed with the
\* message of that error
C26_NoSettingsFailsEarly ==
  /\ [][pc = "load" /\ ~hasSettings =>
          /\ pc' = "thrown" /\ cause' = "settings"
          /\ ~reqAny'
          /\ UNCHANGED <<contact, property>>]_vars
  /\ [][pc = "thrown" /\ cause = "settings" =>
          /\ ~reqAny'
          /\ UNCHANGED <<contact, property>>
          /\ ~jobWriteFailed' =>
               job'.status = "failed" /\ job'.lastError = "settings"]_vars

\* a run of a user without settings has ended: no request was made and
\* the Job row is failed with the engine's error
C26_Witness ==
  /\ ~hasSettings
  /\ pc = "idle" /\ engineOut = "thrown"
  /\ ~reqAny
  /\ job.status = "failed" /\ job.lastError = "settings"
  /\ report = [kind |-> "rejected", err |-> "settings"]

\* contact c owns one of the properties selected for the run
OwnsSelected(c) ==
  \E i \in 1..Len(properties) : property[properties[i]].ownerId = c

\* the contact the engine's next destination request is about (0: none)
RequestSubject ==
  IF pc \in {"contact", "contactPhone", "contactCreate"}
    THEN contactsToPush[ci]
  ELSE IF pc \in {"owner", "ownerPhone"}
    THEN property[properties[pi]].ownerId
  ELSE 0

\* C27: a contact that owns none of the properties selected for the run
\* is not touched by the run: no search or create request is made for it
\* and its local row is not written
C27_NonOwnerUntouched ==
  /\ [](pc \notin {"idle", "load"} =>
          \A c \in ContactIds :
            ~OwnsSelected(c) =>
              /\ RequestSubject # c
              /\ ~InSeq(c, contactsToPush)
              /\ createCalls[c] = 0
              /\ contactIdMap[c] = 0)
  /\ [][pc \notin {"idle", "load"} =>
          \A c \in ContactIds :
            ~OwnsSelected(c) => contact'[c] = contact[c]]_vars

\* a run with selected properties has made requests and reached its end,
\* and a contact that owns only a property outside the selection was left
\* alone
C27_Witness ==
  /\ pc = "returned" /\ reqAny /\ Len(properties) > 0
  /\ \E c \in ContactIds :
       /\ ~OwnsSelected(c)
       /\ \E p \in PropIds : property[p].ownerId = c
       /\ ~contact[c].pushed /\ contact[c].ghlContactId = 0
       /\ contact[c].email

\* C28: a contact with neither email nor phone is never sent to the
\* destination: no search and no create request is made for it in any
\* account, and no property it owns is created in any account
C28_NoAddressNeverSent ==
  /\ [](\A c \in ContactIds :
          ~contact[c].email /\ ~contact[c].phone =>
            /\ createCalls[c] = 0
            /\ contactIdMap[c] = 0
            /\ pc \in {"contactPhone", "contactCreate", "owner",
                       "ownerPhone"} => RequestSubject # c
            /\ pc = "propertyCreate" =>
                 property[properties[pi]].ownerId # c)
  /\ [][\A c \in ContactIds :
          ~contact[c].email /\ ~contact[c].phone =>
            /\ pc = "contact" /\ RequestSubject = c =>
                 /\ UNCHANGED <<reqAny, lastAuth, contact>>
                 /\ pc' \in {"contact", "property"}
            /\ \A p \in PropIds :
                 property[p].ownerId = c => property'[p] = property[p]]_vars

\* a run over both accounts has ended; a selected property is owned by a
\* contact without email and phone, requests were made, and neither the
\* contact nor the property reached the destination
C28_Witness ==
  /\ pc = "returned" /\ reqAny /\ acct = MaxAccounts
  /\ \E p \in PropIds :
       LET c == property[p].ownerId IN
         /\ InSeq(p, properties)
         /\ c # 0
         /\ InSeq(c, contactsToPush)
         /\ ~contact[c].email /\ ~contact[c].phone
         /\ ~property[p].pushed /\ property[p].ghlPropertyId = 0
         /\ contact[c].ghlContactId = 0

\* the queue jobs and the Job rows of user u after the webhook
JobsOf(u) == {j \in ing.queue : j.userId = u}
RowsOf(u) == {r \in ing.rows : r.userId = u}

\* C29: when the webhook run is accepted (answered 200), every user with
\* settings has exactly one queue job and exactly one Job row, the row
\* carrying that job's id and the status pending, and a user without
\* settings has neither a job nor a row.
C29_EverySettingsUserQueued ==
  ing.resp = 200 =>
    \A u \in UserIds :
      IF ing.settings[u]
        THEN /\ Cardinality(JobsOf(u)) = 1
             /\ Cardinality(RowsOf(u)) = 1
             /\ \A r \in RowsOf(u) :
                  r.status = "pending" /\ \E j \in JobsOf(u) : j.id = r.id
      ELSE JobsOf(u) = {} /\ RowsOf(u) = {}

\* C30: the run of a batch job sends to the destination only the
\* properties of its own slice: every property request of the run (search
\* or create) is about a property the job fetched with its offset and
\* batch size, and the run works on at most batchSize properties.
C30_BatchSendsOnlyItsSlice ==
  bat.pc = "running" =>
    /\ pc \in {"property", "propertyCreate"} =>
         InSeq(properties[pi], bat.slice)
    /\ Len(properties) <= bat.batchSize

\* C31: once every batch job of the run has read its slice, each property
\* counted at enqueue time is in the slice of exactly one batch job,
\* whatever the order in which the jobs ran and marked properties pushed.
C31_SlicesCoverOnce ==
  /\ cov.total > 0
  /\ \A b \in BatchIds : cov.bpc[b] \notin {"queued"}
  => \A p \in 1..cov.count :
       Cardinality({b \in BatchIds : InSeq(p, cov.slice[b])}) = 1

\* C32: every normalizer is total: for every string, number, null or
\* undefined input it returns a value of its declared output domain and
\* does not throw.
C32_NormalizersTotal ==
  norm.fn # "none" =>
    /\ norm.out # "TypeError"
    /\ norm.out \in OutputDomain(norm.fn)

\* C33: whatever the interleaving of the runs that select the same local
\* contact and property, the destination account holds at most one record
\* created for the contact and at most one created for the property.
C33_OneRecordPerEntity ==
  con.destContacts <= 1 /\ con.destProps <= 1

\* C34: in a single run, for a contact or property that the account
\* already holds, no create request is issued and no second record is
\* created, whatever the search answered.
C34_ExistingNeverCreated ==
  ded.exists => ded.pc # "create" /\ ded.created = 0

\* the handler looked for the row of job j before the producer wrote it
ClaimedEarly(j) == clm.wpc[j] \notin {"idle", "write"} /\ ~clm.found[j]

\* C35: when the worker claims a job before the producer has written its
\* row, the outcome is that of an upsert: the handler reaches the engine
\* in that attempt with the row in_progress and attempts 1, and the
\* producer's request does not fail.
C35_EarlyClaimIsUpsert ==
  \A j \in SentIds :
    ClaimedEarly(j) =>
      /\ clm.ppc[j] # "failed"
      /\ ~(clm.wpc[j] \in {"caught", "rejected"} /\ clm.engine[j] = 0)
      /\ clm.wpc[j] = "engine" =>
           clm.row[j] = [status |-> "in_progress", attempts |-> 1]

\* C36: a job whose handler has started (row in_progress) eventually has
\* its row written as completed or failed, whatever the destination
\* answers, a destination that keeps answering 429 included.
C36_StartedJobSettles ==
  (live.row = "in_progress") ~> (live.row \in {"completed", "failed"})

\* C37: in the polling variant a row does not stay in_progress for ever,
\* a crash of the process that claimed it included: a row that is
\* in_progress is later pending, completed or failed.
C37_ClaimedRowLeavesInProgress ==
  \A j \in PollJobIds :
    (pjob[j].status = "in_progress") ~> (pjob[j].status # "in_progress")

\* C38: at the end of an account iteration the association count reported
\* for the account is the number of association calls of the iteration
\* whose relation was created or confirmed as existing.
C38_CountIsConfirmedRelations ==
  tally.pc = "end" => tally.reported = tally.confirmed

\* C39: an association request sent to the account being iterated carries
\* a contact id and a property id that this account gave in this run;
\* an id given by another account, or read from the local rows, is never
\* sent to it.
C39_AssociationIdsOfThisAccount ==
  pc \in {"associate", "relate"} => curContact = acct /\ curProp = acct

\* the second account is sent a relation request for a property whose
\* owner's local row holds the id the first account gave
C39_Witness ==
  /\ pc = "relate"
  /\ acct = 2
  /\ curContact = 2
  /\ curProp = 2
  /\ contact[property[properties[pi]].ownerId].ghlContactId = 1

====
